---- MODULE Spec2Model ----
(***************************************************************************)
(* Verification model of the ChainForgeLedger ledger core:                 *)
(*   - FinalityManager   (chainforgeledger/consensus/finality.py)          *)
(*   - Blockchain, Block (chainforgeledger/core/blockchain.py, block.py)   *)
(*   - StateMachine      (chainforgeledger/runtime/state_machine.py)       *)
(*   - ExecutionPipeline (chainforgeledger/core/execution_pipeline.py)     *)
(*   - BlockProducer     (chainforgeledger/core/block_producer.py)         *)
(*   - ProofOfWork       (chainforgeledger/consensus/pow.py)               *)
(*   - ProofOfStake      (chainforgeledger/consensus/pos.py, validator.py) *)
(*   - MerkleTree        (chainforgeledger/core/merkle.py)                 *)
(* Each component has its own specification; the variables of the other    *)
(* components stay at their idle value.                                    *)
(***************************************************************************)
EXTENDS Integers, Sequences, FiniteSets, TLC

VARIABLES
    \* ---- FinalityManager ----
    initialized,            \* self.initialized
    finality_gadget,        \* self.finality_gadget
    validators,             \* self.validators : list of validator ids
    cpHeap,                 \* the Checkpoint objects still referenced (by identity)
    checkpoints,            \* self.checkpoints : block number -> object (0 = no key)
    justified_checkpoint,   \* self.justified_checkpoint : object (0 = None)
    finalized_checkpoint,   \* self.finalized_checkpoint : object (0 = None)
    voteKeys,               \* the keys of self.block_votes
    block_votes,            \* self.block_votes[bn] : the validator ids that voted
    \* ---- Blockchain ----
    chain,                  \* self.chain : list of Block
    block_hash_map,         \* self._block_hash_map : hash -> Block
    addResult,              \* how the last add_block call ended
    chainValid,             \* what the last is_chain_valid() call returned
    \* ---- StateMachine ----
    sm,                     \* the StateMachine object: state, snapshots, state_root
    smResult,               \* the last StateMachine call and how it ended
    smApplied,              \* transactions applied so far
    \* ---- ExecutionPipeline ----
    plugins,                \* self.plugins : list of plugin objects
    pipe,                   \* the last pipeline call: its input and what it gave back
    \* ---- BlockProducer, ProofOfWork ----
    production,             \* the last ProductionResult of produce_block
    pow,                    \* the ProofOfWork object and what its last call gave back
    \* ---- a second StateMachine, MerkleTree, fork choice, ProofOfStake ----
    twin,                   \* a second StateMachine object, fed what `sm` is fed
    merkle,                 \* the MerkleTree object and what its last call gave back
    fork,                   \* the last fork-choice call: the chains and the one chosen
    pos,                    \* the ProofOfStake object, its validators, its last call
    tasks,                  \* the record_vote coroutines in flight, each one's position
    \* ---- MemPool ----
    mempool                 \* the MemPool object and what its last call gave back

finVars == <<initialized, finality_gadget, validators, cpHeap, checkpoints,
             justified_checkpoint, finalized_checkpoint, voteKeys, block_votes>>

chainVars == <<chain, block_hash_map, addResult, chainValid>>

smVars == <<sm, smResult, smApplied>>

pipeVars == <<plugins, pipe>>

consVars == <<production, pow>>

auxVars == <<twin, merkle, fork, pos, tasks, mempool>>

vars == <<finVars, chainVars, smVars, pipeVars, consVars, auxVars>>

\* what a component's actions leave alone
notFinVars == <<chainVars, smVars, pipeVars, consVars, auxVars>>
notChainVars == <<finVars, smVars, pipeVars, consVars, auxVars>>
notSMVars == <<finVars, chainVars, pipeVars, consVars, auxVars>>
notPipeVars == <<finVars, chainVars, consVars, auxVars>>
notConsVars == <<finVars, smVars, pipeVars, auxVars>>

(***************************************************************************)
(* FinalityManager                                                         *)
(***************************************************************************)

\* ---- bounds ----
MaxValidators == 3       \* longest validator list

\* ---- program constants ----
checkpoint_interval == 32
finality_threshold_pct == 67
justification_threshold_pct == 50

\* The handlers read the validator list through its length alone, and any length
\* is reached from any other by remove_validator and add_validator.
ValidatorIds == {"v1"}
\* vote.validator_id is never compared with the validator set
VoterIds == {"v1", "v2", "x"}
Gadgets == {"PBFT", "Casper FFG", "LMD-GHOST"}

\* the heights of the first two epoch boundaries
CheckpointHeights == {checkpoint_interval, 2 * checkpoint_interval}
\* a height that is no multiple of the interval
OffHeight == checkpoint_interval + 1
\* block numbers handed to create_checkpoint (genesis included), in ascending order
CreateHeightSeq == <<0, checkpoint_interval, 2 * checkpoint_interval>>
CreateHeights == {CreateHeightSeq[i] : i \in DOMAIN CreateHeightSeq}
BlockNumbers == CreateHeights \cup {OffHeight}
\* the votes handed to record_vote: every voter at the checkpoint heights, one
\* vote at the off height
VoteInputs == (CheckpointHeights \X VoterIds) \cup {<<OffHeight, "v1">>}

NoJustification == "None"
\* the dict {'votes', 'signatureCount', 'thresholdMet', 'timestamp'}
JustificationRecord == "thresholdMet"

Checkpoint(bn, fin) ==
    [block_number |-> bn, epoch |-> bn \div checkpoint_interval,
     justification |-> NoJustification, finalized |-> fin]

should_checkpoint(bn) == bn > 0 /\ bn % checkpoint_interval = 0

\* int(len(validators) * threshold) + 1, threshold given in hundredths
RequiredVotes(n, pct) == ((n * pct) \div 100) + 1

required_justification_votes_NoPlusOne(vals) == (Len(vals) * justification_threshold_pct) \div 100

required_justification_votes(vals) == RequiredVotes(Len(vals), justification_threshold_pct)

required_finality_votes(vals) == RequiredVotes(Len(vals), finality_threshold_pct)

get_checkpoint_by_epoch(cps, epoch) ==
    LET bn == epoch * checkpoint_interval
    IN IF bn \in DOMAIN cps THEN cps[bn] ELSE 0

\* the state the vote handlers work on
FinState(heap, just, fin) == [heap |-> heap, just |-> just, fin |-> fin]

\* attempt_checkpoint_justification(bn), bn a key of block_votes
attempt_checkpoint_justification(s, bn, votes, vals) ==
    IF Cardinality(votes[bn]) >= required_justification_votes(vals) /\ checkpoints[bn] # 0
    THEN LET o == checkpoints[bn]
         IN [s EXCEPT !.heap[o].justification = JustificationRecord,
                      !.just = o]
    ELSE s

attempt_pbft_finality(s, keys, votes, vals) ==
    LET current_height == s.heap[s.just].block_number
    IN IF current_height \notin keys THEN s
       ELSE IF Cardinality(votes[current_height]) >= required_finality_votes(vals)
            THEN [s EXCEPT !.heap[s.just].finalized = TRUE, !.fin = s.just]
            ELSE s

\* faulty variant: finalizes the current justified checkpoint instead of the previous one
attempt_casper_ffg_finality_Current(s, keys, votes, vals) ==
    LET current_epoch == s.heap[s.just].epoch
        previous_checkpoint == get_checkpoint_by_epoch(checkpoints, current_epoch - 1)
        VotesOf(bn) == IF bn \in keys THEN votes[bn] ELSE {}
    IN IF /\ previous_checkpoint # 0
          /\ s.heap[previous_checkpoint].justification # NoJustification
          /\ ~s.heap[s.just].finalized
          /\ Cardinality(VotesOf(s.heap[previous_checkpoint].block_number))
                >= required_finality_votes(vals)
          /\ Cardinality(VotesOf(s.heap[s.just].block_number))
                >= required_finality_votes(vals)
       THEN [s EXCEPT !.heap[s.just].finalized = TRUE, !.fin = s.just]
       ELSE s

attempt_casper_ffg_finality(s, keys, votes, vals) ==
    LET current_epoch == s.heap[s.just].epoch
        previous_checkpoint == get_checkpoint_by_epoch(checkpoints, current_epoch - 1)
        VotesOf(bn) == IF bn \in keys THEN votes[bn] ELSE {}
    IN IF /\ previous_checkpoint # 0
          /\ s.heap[previous_checkpoint].justification # NoJustification
          /\ ~s.heap[previous_checkpoint].finalized
          /\ Cardinality(VotesOf(s.heap[previous_checkpoint].block_number))
                >= required_finality_votes(vals)
          /\ Cardinality(VotesOf(s.heap[s.just].block_number))
                >= required_finality_votes(vals)
       THEN [s EXCEPT !.heap[previous_checkpoint].finalized = TRUE,
                      !.fin = previous_checkpoint]
       ELSE s

\* get_latest_block_by_chain returns None, so the branch never finalizes
attempt_lmd_finality(s, keys, votes, vals) == s

attempt_finality(s, keys, votes, vals) ==
    IF finality_gadget = "PBFT" THEN attempt_pbft_finality(s, keys, votes, vals)
    ELSE IF finality_gadget = "Casper FFG" THEN attempt_casper_ffg_finality(s, keys, votes, vals)
    ELSE attempt_lmd_finality(s, keys, votes, vals)

\* process_votes(bn), bn a key of block_votes
process_votes(s, bn, keys, votes, vals) ==
    LET s1 == IF should_checkpoint(bn)
              THEN attempt_checkpoint_justification(s, bn, votes, vals)
              ELSE s
    IN IF s1.just # 0 /\ s1.heap[s1.just].block_number > s1.heap[s1.fin].block_number
       THEN attempt_finality(s1, keys, votes, vals)
       ELSE s1

\* Object identity is kept up to renaming: the objects reachable from
\* self.checkpoints, self.justified_checkpoint and self.finalized_checkpoint are
\* numbered in that order, the unreachable ones are dropped.
RECURSIVE LiveInDict(_, _)
LiveInDict(cps, i) ==
    IF i > Len(CreateHeightSeq) THEN <<>>
    ELSE (IF cps[CreateHeightSeq[i]] # 0 THEN <<cps[CreateHeightSeq[i]]>> ELSE <<>>)
         \o LiveInDict(cps, i + 1)

InSeq(q, o) == \E i \in DOMAIN q : q[i] = o

LiveObjects(cps, just, fin) ==
    LET d == LiveInDict(cps, 1)
        dj == IF just # 0 /\ ~InSeq(d, just) THEN Append(d, just) ELSE d
    IN IF fin # 0 /\ ~InSeq(dj, fin) THEN Append(dj, fin) ELSE dj

Renumber(heap, cps, just, fin) ==
    LET order == LiveObjects(cps, just, fin)
        id(o) == IF o = 0 THEN 0 ELSE CHOOSE i \in DOMAIN order : order[i] = o
    IN [heap |-> [i \in DOMAIN order |-> heap[order[i]]],
        cps  |-> [bn \in DOMAIN cps |-> id(cps[bn])],
        just |-> id(just),
        fin  |-> id(fin)]

\* the Blockchain variables while another component is checked
ChainIdle ==
    /\ chain = <<>>
    /\ block_hash_map = <<>>
    /\ addResult = "none"
    /\ chainValid = "none"

\* the StateMachine variables while another component is checked
SMIdle ==
    /\ sm = <<>>
    /\ smResult = "none"
    /\ smApplied = 0

\* the ExecutionPipeline variables while another component is checked
PipeIdle ==
    /\ plugins = <<>>
    /\ pipe = <<>>

\* no produce_block call made yet
NoProduction ==
    [call |-> "none", success |-> FALSE, error |-> "none", validation |-> "none",
     block |-> <<>>]

\* no ProofOfWork object
NoPow == [call |-> "none"]

\* the BlockProducer and ProofOfWork variables while another component is checked
ConsIdle ==
    /\ production = NoProduction
    /\ pow = NoPow

\* the second StateMachine, MerkleTree, fork-choice, ProofOfStake and coroutine
\* variables while another component is checked
AuxIdle ==
    /\ twin = <<>>
    /\ merkle = <<>>
    /\ fork = <<>>
    /\ pos = <<>>
    /\ tasks = <<>>
    /\ mempool = <<>>

FinFields ==
    /\ initialized = FALSE
    /\ finality_gadget \in Gadgets
    /\ validators = <<>>
    /\ cpHeap = <<>>
    /\ checkpoints = [bn \in CreateHeights |-> 0]
    /\ justified_checkpoint = 0
    /\ finalized_checkpoint = 0
    /\ voteKeys = {}
    /\ block_votes = [bn \in BlockNumbers |-> {}]

FinConstructed == FinFields /\ ChainIdle /\ SMIdle /\ PipeIdle /\ ConsIdle /\ AuxIdle

\* initialize() / create_initial_checkpoint()
Initialize ==
    /\ ~initialized
    /\ initialized' = TRUE
    /\ LET o == Len(cpHeap) + 1
           r == Renumber(Append(cpHeap, Checkpoint(0, TRUE)),
                         [checkpoints EXCEPT ![0] = o], o, o)
       IN /\ cpHeap' = r.heap
          /\ checkpoints' = r.cps
          /\ justified_checkpoint' = r.just
          /\ finalized_checkpoint' = r.fin
    /\ UNCHANGED <<finality_gadget, validators, voteKeys, block_votes, notFinVars>>

add_validator(v) ==
    /\ initialized
    /\ Len(validators) < MaxValidators
    /\ validators' = Append(validators, v)
    /\ UNCHANGED <<initialized, finality_gadget, cpHeap, checkpoints,
                   justified_checkpoint, finalized_checkpoint, voteKeys, block_votes,
                   notFinVars>>

RECURSIVE Without(_, _)
Without(list, v) ==
    IF list = <<>> THEN <<>>
    ELSE IF Head(list) = v THEN Without(Tail(list), v)
         ELSE <<Head(list)>> \o Without(Tail(list), v)

remove_validator(v) ==
    /\ initialized
    /\ validators' = Without(validators, v)
    /\ UNCHANGED <<initialized, finality_gadget, cpHeap, checkpoints,
                   justified_checkpoint, finalized_checkpoint, voteKeys, block_votes,
                   notFinVars>>

create_checkpoint(bn) ==
    /\ initialized
    /\ LET o == Len(cpHeap) + 1
           r == Renumber(Append(cpHeap, Checkpoint(bn, FALSE)),
                         [checkpoints EXCEPT ![bn] = o],
                         justified_checkpoint, finalized_checkpoint)
       IN /\ cpHeap' = r.heap
          /\ checkpoints' = r.cps
          /\ justified_checkpoint' = r.just
          /\ finalized_checkpoint' = r.fin
    /\ voteKeys' = voteKeys \cup {bn}
    /\ block_votes' = [block_votes EXCEPT ![bn] = {}]
    /\ UNCHANGED <<initialized, finality_gadget, validators, notFinVars>>

\* faulty variant: a repeated vote is stored under a key of its own instead of
\* replacing the entry of its validator
record_vote_Restored(bn, vid) ==
    /\ initialized
    /\ LET keys == voteKeys \cup {bn}
           key == IF vid \in block_votes[bn] /\ VoterIds \ block_votes[bn] # {}
                  THEN CHOOSE w \in VoterIds : w \notin block_votes[bn]
                  ELSE vid
           votes == [block_votes EXCEPT ![bn] = @ \cup {key}]
           s == process_votes(FinState(cpHeap, justified_checkpoint, finalized_checkpoint),
                              bn, keys, votes, validators)
           r == Renumber(s.heap, checkpoints, s.just, s.fin)
       IN /\ voteKeys' = keys
          /\ block_votes' = votes
          /\ cpHeap' = r.heap
          /\ checkpoints' = r.cps
          /\ justified_checkpoint' = r.just
          /\ finalized_checkpoint' = r.fin
    /\ UNCHANGED <<initialized, finality_gadget, validators, notFinVars>>

record_vote(bn, vid) ==
    /\ initialized
    /\ LET keys == voteKeys \cup {bn}
           votes == [block_votes EXCEPT ![bn] = @ \cup {vid}]
           s == process_votes(FinState(cpHeap, justified_checkpoint, finalized_checkpoint),
                              bn, keys, votes, validators)
           r == Renumber(s.heap, checkpoints, s.just, s.fin)
       IN /\ voteKeys' = keys
          /\ block_votes' = votes
          /\ cpHeap' = r.heap
          /\ checkpoints' = r.cps
          /\ justified_checkpoint' = r.just
          /\ finalized_checkpoint' = r.fin
    /\ UNCHANGED <<initialized, finality_gadget, validators, notFinVars>>

NextFinality ==
    \/ Initialize
    \/ \E v \in ValidatorIds : add_validator(v)
    \/ \E v \in ValidatorIds : remove_validator(v)
    \/ \E bn \in CreateHeights : create_checkpoint(bn)
    \/ \E in \in VoteInputs : record_vote(in[1], in[2])

SpecFinality == FinConstructed /\ [][NextFinality]_vars

\* the manager constructed with finalityGadget = 'Casper FFG' (the default)
FFGConstructed == FinConstructed /\ finality_gadget = "Casper FFG"

SpecFFG == FFGConstructed /\ [][NextFinality]_vars

\* ---- what the claims read ----
FinalizedAt(bn) == checkpoints[bn] # 0 /\ cpHeap[checkpoints[bn]].finalized

JustifiedAt(bn) ==
    checkpoints[bn] # 0 /\ cpHeap[checkpoints[bn]].justification # NoJustification

FinalizedHeight == cpHeap[finalized_checkpoint].block_number

JustifiedHeight == cpHeap[justified_checkpoint].block_number

VoteCount(bn) == Cardinality(block_votes[bn])

\* C1: once the checkpoint of a height is finalized, the checkpoint stored for
\* that height stays finalized, the height of finalized_checkpoint never
\* decreases, and no checkpoint below the finalized height is finalized later.
C1_FinalityMonotonic ==
    [][initialized =>
        /\ \A bn \in CreateHeights : FinalizedAt(bn) => FinalizedAt(bn)'
        /\ FinalizedHeight' >= FinalizedHeight
        /\ \A bn \in CreateHeights :
              (~FinalizedAt(bn) /\ FinalizedAt(bn)') => bn >= FinalizedHeight]_vars

\* C2: under Casper FFG a step finalizes the checkpoint one epoch below the
\* justified one, never the justified one, and only with the votes of both at
\* the finality threshold; the vote that brings both there, with the previous
\* checkpoint justified and unfinalized, finalizes the previous checkpoint.
C2_FFGFinalizesPrevious ==
    [][initialized =>
        \A bn \in CreateHeights :
          LET need == ((Len(validators) * finality_threshold_pct) \div 100) + 1
              cast == \E in \in VoteInputs : record_vote(in[1], in[2])
          IN /\ (~FinalizedAt(bn) /\ FinalizedAt(bn)') =>
                   /\ JustifiedHeight' = bn + checkpoint_interval
                   /\ finalized_checkpoint' = checkpoints'[bn]
                   /\ justified_checkpoint' # finalized_checkpoint'
                   /\ VoteCount(bn)' >= need
                   /\ VoteCount(bn + checkpoint_interval)' >= need
             /\ ( /\ JustifiedAt(bn) /\ ~FinalizedAt(bn)
                  /\ JustifiedHeight' = bn + checkpoint_interval
                  /\ JustifiedHeight' > FinalizedHeight
                  /\ VoteCount(bn)' >= need
                  /\ VoteCount(bn + checkpoint_interval)' >= need
                  /\ cast )
                => (FinalizedAt(bn)' /\ finalized_checkpoint' = checkpoints'[bn])]_vars

\* checkpoint 32 finalized with three validators while 64 is the justified,
\* unfinalized checkpoint
C2_Witness ==
    /\ finality_gadget = "Casper FFG"
    /\ Len(validators) = 3
    /\ FinalizedAt(checkpoint_interval)
    /\ finalized_checkpoint = checkpoints[checkpoint_interval]
    /\ justified_checkpoint = checkpoints[2 * checkpoint_interval]
    /\ ~FinalizedAt(2 * checkpoint_interval)

\* C10: a checkpoint gets its justification record exactly in the record_vote
\* step that finds floor(N * justification_threshold) + 1 distinct votes for its
\* height; that step also makes it the justified checkpoint. The first two
\* conjuncts are written in contrapositive form: a step that leaves a stored
\* checkpoint with enough votes but not justified, or with too few votes and a
\* changed justification, is no record_vote step for its height.
C10_JustifiedAtThreshold ==
    [][initialized =>
        \A bn \in CheckpointHeights :
          LET need == ((Len(validators) * justification_threshold_pct) \div 100) + 1
              cast == \E vid \in VoterIds : record_vote(bn, vid)
          IN /\ ( /\ checkpoints[bn] # 0
                  /\ VoteCount(bn)' >= need
                  /\ ~(JustifiedAt(bn)' /\ justified_checkpoint' = checkpoints'[bn]) )
                => ~cast
             /\ ( /\ checkpoints[bn] # 0
                  /\ VoteCount(bn)' < need
                  /\ JustifiedAt(bn)' # JustifiedAt(bn) )
                => ~cast
             /\ (~JustifiedAt(bn) /\ JustifiedAt(bn)') =>
                   (VoteCount(bn)' >= need /\ cast)]_vars

\* with three validators, checkpoint 32 is justified by two votes
C10_Witness ==
    /\ Len(validators) = 3
    /\ JustifiedAt(checkpoint_interval)
    /\ VoteCount(checkpoint_interval) = 2
    /\ justified_checkpoint = checkpoints[checkpoint_interval]


\* C11 as claimed: a record_vote call never lowers the height of
\* justified_checkpoint, whatever the order in which the votes for the
\* checkpoint heights arrive.
C11_JustifiedHeightMonotonic ==
    [][\A in \in VoteInputs :
          record_vote(in[1], in[2]) => JustifiedHeight' >= JustifiedHeight]_vars

\* C12: a record_vote call raises the tally of its height by at most one and
\* leaves every other tally alone, and a call by a validator whose vote for the
\* height is already stored leaves the tally of the height unchanged. Written
\* in contrapositive form: a step that breaks one of these is no record_vote
\* step of that validator for that height.
C12_VoteIdempotent ==
    [][\A in \in VoteInputs :
          LET bn == in[1]
              vid == in[2]
          IN ( \/ VoteCount(bn)' > VoteCount(bn) + 1
               \/ VoteCount(bn)' < VoteCount(bn)
               \/ \E other \in BlockNumbers \ {bn} : VoteCount(other)' # VoteCount(other)
               \/ (vid \in block_votes[bn] /\ VoteCount(bn)' # VoteCount(bn))
               \/ (vid \notin block_votes[bn] /\ VoteCount(bn)' # VoteCount(bn) + 1) )
             => ~record_vote(bn, vid)]_vars

\* every voter has voted for height 32 and is counted once, so that any further
\* vote for the height is a repeated one
C12_Witness ==
    /\ initialized
    /\ block_votes[checkpoint_interval] = VoterIds
    /\ VoteCount(checkpoint_interval) = Cardinality(VoterIds)
    /\ Len(validators) = MaxValidators
    /\ JustifiedAt(checkpoint_interval)

\* C13 as claimed: from initialize onward every checkpoint whose finalized flag
\* is set carries a justification record.
C13_FinalizedImpliesJustified ==
    initialized =>
        \A o \in DOMAIN cpHeap :
            cpHeap[o].finalized => cpHeap[o].justification # NoJustification


(***************************************************************************)
(* Blockchain and Block                                                    *)
(***************************************************************************)

\* ---- bounds ----
MaxBlocks == 3           \* blocks appended after the genesis block
MaxAuditLen == 3         \* longest chain handed to is_chain_valid

\* '0' * 64
ZeroHash == 0
\* block.transactions as handed in
TxLists == {<<>>, <<"tx1">>}
\* block.nonce; it stands for the seal (nonce, timestamp, validator, difficulty)
Nonces == 0..1

IndexSpan == MaxBlocks + MaxAuditLen + 2

\* sha256_hash over the block's fields: a digest that differs as soon as the
\* index, the previous hash, the seal or the number of transactions differs,
\* and never the all-zero digest
sha256_block(index, previous_hash, transactions, nonce) ==
    1 + Len(transactions) + 3 * (nonce + 2 * (index + IndexSpan * previous_hash))

\* Block.calculate_hash
calculate_hash(b) == sha256_block(b.index, b.previous_hash, b.transactions, b.nonce)

\* Block.validate_block
validate_block(b) == calculate_hash(b) = b.hash

\* a Block object: its fields and its stored hash
BlockRec(index, previous_hash, transactions, nonce, hash) ==
    [index |-> index, previous_hash |-> previous_hash, transactions |-> transactions,
     nonce |-> nonce, hash |-> hash]

\* Block.__init__: the stored hash is the digest of the fields
NewBlock(index, previous_hash, transactions, nonce) ==
    BlockRec(index, previous_hash, transactions, nonce,
             sha256_block(index, previous_hash, transactions, nonce))

\* a Block whose fields were changed after its hash was stored
StaleHash(index, previous_hash, transactions, nonce) ==
    sha256_block(index, previous_hash, transactions, 1 - nonce)

get_last_block(c) == c[Len(c)]

\* faulty variant: the previous-hash check is missing
is_valid_block_NoLink(c, b) ==
    /\ b.index = get_last_block(c).index + 1
    /\ validate_block(b)

\* faulty variant: the index check is missing
is_valid_block_NoIndex(c, b) ==
    /\ b.previous_hash = get_last_block(c).hash
    /\ validate_block(b)

is_valid_block(c, b) ==
    /\ b.index = get_last_block(c).index + 1
    /\ b.previous_hash = get_last_block(c).hash
    /\ validate_block(b)

\* faulty variant: the loop starts at the genesis block and checks its hash too
is_chain_valid_WithGenesis(c) ==
    /\ \A i \in 2..Len(c) :
          /\ c[i].index = c[i - 1].index + 1
          /\ c[i].previous_hash = c[i - 1].hash
          /\ validate_block(c[i])
    /\ validate_block(c[1])

is_chain_valid(c) ==
    \A i \in 2..Len(c) :
        /\ c[i].index = c[i - 1].index + 1
        /\ c[i].previous_hash = c[i - 1].hash
        /\ validate_block(c[i])

HashMapPut(m, b) == [h \in DOMAIN m \cup {b.hash} |-> IF h = b.hash THEN b ELSE m[h]]

create_genesis_block == NewBlock(0, ZeroHash, <<>>, 0)

FinIdle ==
    /\ initialized = FALSE
    /\ finality_gadget = "Casper FFG"
    /\ validators = <<>>
    /\ cpHeap = <<>>
    /\ checkpoints = [bn \in CreateHeights |-> 0]
    /\ justified_checkpoint = 0
    /\ finalized_checkpoint = 0
    /\ voteKeys = {}
    /\ block_votes = [bn \in BlockNumbers |-> {}]

\* Blockchain.__init__
ChainConstructed ==
    /\ chain = <<create_genesis_block>>
    /\ block_hash_map = HashMapPut(<<>>, create_genesis_block)
    /\ addResult = "none"
    /\ chainValid = "none"
    /\ FinIdle
    /\ SMIdle
    /\ PipeIdle
    /\ ConsIdle
    /\ AuxIdle

\* the blocks handed to add_block: the right and two wrong indexes, the genesis
\* index, the right and two wrong previous hashes, a fresh or a stale stored hash
BlockInputs(c) ==
    LET last == get_last_block(c)
    IN { BlockRec(i, p, t, n, h) :
           i \in {0, last.index, last.index + 1, last.index + 2},
           p \in {ZeroHash, c[1].hash, last.hash},
           t \in TxLists,
           n \in Nonces,
           h \in {0, 1} }

\* the set above with the stored hash filled in (h = 1: stale)
BlocksFor(c) ==
    { IF b.hash = 0
      THEN NewBlock(b.index, b.previous_hash, b.transactions, b.nonce)
      ELSE [b EXCEPT !.hash = StaleHash(b.index, b.previous_hash, b.transactions, b.nonce)]
      : b \in BlockInputs(c) }

add_block(b) ==
    /\ Len(chain) <= MaxBlocks
    /\ IF is_valid_block(chain, b)
       THEN /\ chain' = Append(chain, b)
            /\ block_hash_map' = HashMapPut(block_hash_map, b)
            /\ addResult' = "appended"
       ELSE /\ addResult' = "ValueError"
            /\ UNCHANGED <<chain, block_hash_map>>
    /\ UNCHANGED <<chainValid, notChainVars>>

\* is_chain_valid() on the chain as it stands
CheckChain ==
    /\ chainValid' = IF is_chain_valid(chain) THEN "True" ELSE "False"
    /\ UNCHANGED <<chain, block_hash_map, addResult, notChainVars>>

NextChain ==
    \/ \E b \in BlocksFor(chain) : add_block(b)
    \/ CheckChain

SpecChain == ChainConstructed /\ [][NextChain]_vars

\* C3: add_block appends the block exactly when its index is last.index + 1,
\* its previous_hash is last.hash and its stored hash equals its recomputed
\* hash; every other call raises and leaves chain and hash index as they were.
C3_AddBlockGuard ==
    [][\A b \in BlocksFor(chain) :
          add_block(b) =>
            LET last == chain[Len(chain)]
                ok == /\ b.index = last.index + 1
                      /\ b.previous_hash = last.hash
                      /\ b.hash = sha256_block(b.index, b.previous_hash,
                                               b.transactions, b.nonce)
            IN IF ok
               THEN /\ chain' = Append(chain, b)
                    /\ addResult' = "appended"
                    /\ DOMAIN block_hash_map' = DOMAIN block_hash_map \cup {b.hash}
                    /\ block_hash_map'[b.hash] = b
               ELSE /\ addResult' = "ValueError"
                    /\ chain' = chain
                    /\ block_hash_map' = block_hash_map]_vars

\* a call was rejected after two blocks had been appended
C3_Witness == Len(chain) = 3 /\ addResult = "ValueError"

\* C4: the chain starts with the one genesis block, block i has index i and is
\* linked to block i-1, is_chain_valid() holds, and a step only ever appends.
C4_ChainState ==
    /\ Len(chain) >= 1
    /\ chain[1].index = 0
    /\ chain[1].previous_hash = ZeroHash
    /\ chain[1].transactions = <<>>
    /\ \A i \in 1..Len(chain) : chain[i].index = i - 1
    /\ \A i \in 2..Len(chain) :
          /\ chain[i].previous_hash = chain[i - 1].hash
          /\ chain[i].previous_hash # ZeroHash
    /\ is_chain_valid(chain)

C4_AppendOnlyWellLinked ==
    /\ []C4_ChainState
    /\ [][/\ Len(chain') >= Len(chain)
          /\ SubSeq(chain', 1, Len(chain)) = chain]_vars

\* the longest chain, just appended to and found valid by is_chain_valid()
C4_Witness == Len(chain) = MaxBlocks + 1 /\ addResult = "appended" /\ chainValid = "True"

\* ---- is_chain_valid() over chains built by any means ----
\* self.chain is a public list of mutable Block objects: the chains below are
\* those a caller can build, block by block, with a right or wrong index, a
\* previous_hash that is the stored or the recomputed hash of the block before
\* it or the zero hash, and a fresh or stale stored hash.
GenesisCandidates ==
    UNION { { BlockRec(i, ZeroHash, <<>>, 0, h) :
                h \in {sha256_block(i, ZeroHash, <<>>, 0), StaleHash(i, ZeroHash, <<>>, 0)} } :
            i \in {0, 1} }

NextCandidates(c) ==
    LET last == get_last_block(c)
    IN UNION { { BlockRec(i, p, <<>>, 0, h) :
                   h \in {sha256_block(i, p, <<>>, 0), StaleHash(i, p, <<>>, 0)} } :
               i \in {last.index, last.index + 1},
               p \in {last.hash, calculate_hash(last), ZeroHash} }

RECURSIVE ChainsOfLen(_)
ChainsOfLen(n) ==
    IF n = 1 THEN { <<g>> : g \in GenesisCandidates }
    ELSE UNION { { Append(c, b) : b \in NextCandidates(c) } : c \in ChainsOfLen(n - 1) }

AnyChains == UNION { ChainsOfLen(n) : n \in 1..MaxAuditLen }

AuditInit ==
    /\ chain \in AnyChains
    /\ block_hash_map = <<>>
    /\ addResult = "none"
    /\ chainValid = "none"
    /\ FinIdle
    /\ SMIdle
    /\ PipeIdle
    /\ ConsIdle
    /\ AuxIdle

NextAudit == CheckChain

SpecChainAudit == AuditInit /\ [][NextAudit]_vars

\* C5 as claimed: is_chain_valid() is true iff every stored hash equals its
\* recomputation and every previous_hash equals the hash of the block before.
C5_ValidIffHashesAndLinks ==
    chainValid # "none" =>
        ( chainValid = "True" <=>
            /\ \A i \in 1..Len(chain) :
                  chain[i].hash = sha256_block(chain[i].index, chain[i].previous_hash,
                                               chain[i].transactions, chain[i].nonce)
            /\ \A i \in 2..Len(chain) : chain[i].previous_hash = chain[i - 1].hash )

\* C5 amended: is_chain_valid() is true iff every block after the genesis block
\* has a stored hash equal to its recomputation, a previous_hash equal to the
\* stored hash of the block before it and the index of that block plus one.
C5_ValidIffAfterGenesis ==
    chainValid # "none" =>
        ( chainValid = "True" <=>
            \A i \in 2..Len(chain) :
                /\ chain[i].hash = sha256_block(chain[i].index, chain[i].previous_hash,
                                                chain[i].transactions, chain[i].nonce)
                /\ chain[i].previous_hash = chain[i - 1].hash
                /\ chain[i].index = chain[i - 1].index + 1 )

\* a three-block chain found valid although the genesis hash is stale
C5_Witness ==
    /\ Len(chain) = 3
    /\ chainValid = "True"
    /\ chain[1].hash # sha256_block(chain[1].index, chain[1].previous_hash,
                                    chain[1].transactions, chain[1].nonce)

(***************************************************************************)
(* StateMachine                                                            *)
(***************************************************************************)

\* ---- bounds ----
MaxApplied == 2          \* transactions applied in one run

\* ---- program constants ----
MinGasLimit == 21000

UserAddrs == {"A", "B"}
TxNonces == {0}
\* sha256_hash(f"{from_address}:{nonce}"): one address per (sender, nonce)
ContractAddressOf(from, nonce) == IF from = "A" THEN "cA" ELSE "cB"
\* the keys self.state['accounts'] can get, in a fixed order
AccountKeySeq == <<"A", "B", "cA", "cB">>
AccountKeys == {AccountKeySeq[i] : i \in DOMAIN AccountKeySeq}
\* to_address: an account, a contract address, or empty for a contract creation
Recipients == {"A", "B", ""}
Values == {-1, 1}
GasLimits == {MinGasLimit - 1, MinGasLimit}
\* the fee the pipeline charges for the transaction (receipt.set_fee)
Fees == {0, 1}
\* the block numbers snapshots are taken at
Heights == {0, 1}

Tx(from, to, value, gas, nonce, fee) ==
    [from_address |-> from, to_address |-> to, value |-> value, gas_limit |-> gas,
     nonce |-> nonce, fee |-> fee]

TxInputs ==
    { Tx(f, t, v, g, n, fee) :
        f \in UserAddrs, t \in Recipients, v \in Values, g \in GasLimits,
        n \in TxNonces, fee \in Fees }

\* an account dict {'balance', 'nonce', 'code', 'storage': {}}
Account(balance, code) == [balance |-> balance, nonce |-> 0, code |-> code]

\* what a key of an account map shows: the dict it refers to, or no entry
NoAccount == [exists |-> FALSE, balance |-> 0, nonce |-> 0, code |-> ""]

Deep(accounts, heap) ==
    [a \in AccountKeys |->
        IF accounts[a] = 0 THEN NoAccount
        ELSE [exists |-> TRUE, balance |-> heap[accounts[a]].balance,
              nonce |-> heap[accounts[a]].nonce, code |-> heap[accounts[a]].code]]

NoContract == [exists |-> FALSE, created_block |-> 0]

\* sha256_hash(str(self.state)): a digest of the whole state dict
calculate_state_root(s) ==
    [accounts |-> Deep(s.accounts, s.heap), contracts |-> s.contracts, block |-> s.block]

NoRoot ==
    [accounts |-> [a \in AccountKeys |-> NoAccount],
     contracts |-> [a \in AccountKeys |-> NoContract],
     block |-> [number |-> 0, hash |-> ZeroHash, timestamp |-> "none"]]

\* snapshots.get(h) is None
NoSnapshot ==
    [exists |-> FALSE, block_number |-> 0, block_hash |-> ZeroHash, state_root |-> NoRoot,
     timestamp |-> "none", accounts |-> [a \in AccountKeys |-> 0],
     contracts |-> [a \in AccountKeys |-> NoContract],
     taken |-> [a \in AccountKeys |-> NoAccount]]

\* ---- account dicts by identity, kept up to renaming ----
RefsOf(accounts) == [i \in DOMAIN AccountKeySeq |-> accounts[AccountKeySeq[i]]]

RECURSIVE SnapshotRefs(_, _)
SnapshotRefs(snapshots, h) ==
    IF h \notin DOMAIN snapshots THEN <<>>
    ELSE RefsOf(snapshots[h].accounts) \o SnapshotRefs(snapshots, h + 1)

RECURSIVE DistinctRefs(_, _)
DistinctRefs(q, acc) ==
    IF q = <<>> THEN acc
    ELSE DistinctRefs(Tail(q),
                      IF Head(q) = 0 \/ InSeq(acc, Head(q)) THEN acc
                      ELSE Append(acc, Head(q)))

\* the dicts no account map refers to any more are dropped, the others numbered
\* in the order the maps list them
Compact(s) ==
    LET order == DistinctRefs(RefsOf(s.accounts) \o SnapshotRefs(s.snapshots, 0), <<>>)
        id(o) == IF o = 0 THEN 0 ELSE CHOOSE i \in DOMAIN order : order[i] = o
        ren(accounts) == [a \in AccountKeys |-> id(accounts[a])]
    IN [s EXCEPT !.heap = [i \in DOMAIN order |-> s.heap[order[i]]],
                 !.accounts = ren(s.accounts),
                 !.snapshots = [h \in DOMAIN s.snapshots |->
                                   [s.snapshots[h] EXCEPT !.accounts = ren(@)]]]

\* ---- the methods, as functions of the object ----
\* _execute_transaction, contract creation branch
execute_contract_creation(s, tx) ==
    LET ca == ContractAddressOf(tx.from_address, tx.nonce)
        heap1 == Append(s.heap, Account(tx.value, "data"))
        accounts1 == [s.accounts EXCEPT ![ca] = Len(s.heap) + 1]
        f == accounts1[tx.from_address]
    IN [s EXCEPT !.heap = [heap1 EXCEPT ![f].balance = @ - tx.value, ![f].nonce = @ + 1],
                 !.accounts = accounts1,
                 !.contracts[ca] = [exists |-> TRUE,
                                    created_block |-> s.current_block_number]]

\* _execute_transaction, transfer branch
execute_transfer(s, tx) ==
    LET fresh == s.accounts[tx.to_address] = 0
        heap1 == IF fresh THEN Append(s.heap, Account(0, "")) ELSE s.heap
        accounts1 == IF fresh THEN [s.accounts EXCEPT ![tx.to_address] = Len(s.heap) + 1]
                     ELSE s.accounts
        f == accounts1[tx.from_address]
        t == accounts1[tx.to_address]
        heap2 == [heap1 EXCEPT ![f].balance = @ - tx.value]
        heap3 == [heap2 EXCEPT ![t].balance = @ + tx.value]
    IN [s EXCEPT !.heap = [heap3 EXCEPT ![f].nonce = @ + 1], !.accounts = accounts1]

execute_transaction(s, tx) ==
    IF tx.to_address # "" THEN execute_transfer(s, tx) ELSE execute_contract_creation(s, tx)

\* apply_transaction: the object afterwards and the ExecutionResult
apply_transaction(s, tx) ==
    IF s.accounts[tx.from_address] = 0
    THEN [s |-> s, success |-> FALSE, error |-> "Sender account not found"]
    ELSE IF s.heap[s.accounts[tx.from_address]].balance < tx.value
    THEN [s |-> s, success |-> FALSE, error |-> "Insufficient balance"]
    ELSE IF tx.gas_limit < MinGasLimit
    THEN [s |-> s, success |-> FALSE, error |-> "Gas limit too low"]
    ELSE LET s1 == execute_transaction(s, tx)
         IN [s |-> [s1 EXCEPT !.state_root = calculate_state_root(s1)],
             success |-> TRUE, error |-> ""]

\* create_snapshot: dict(self.state['accounts']) copies the map, not the dicts in
\* it. `taken` records what the account map showed at that moment; the code
\* never reads it.
create_snapshot_at(s, block_number, now) ==
    LET block_num == IF block_number = 0 THEN s.current_block_number ELSE block_number
    IN [s EXCEPT !.snapshots[block_num] =
                    [exists |-> TRUE, block_number |-> block_num,
                     block_hash |-> s.block.hash, state_root |-> s.state_root,
                     timestamp |-> now, accounts |-> s.accounts,
                     contracts |-> s.contracts,
                     taken |-> Deep(s.accounts, s.heap)]]

\* create_snapshot with time.time() reading "snapshot"
create_snapshot(s, block_number) == create_snapshot_at(s, block_number, "snapshot")

\* restore_snapshot, for a block number that has a snapshot
restore_snapshot(s, block_number) ==
    LET snapshot == s.snapshots[block_number]
    IN [s EXCEPT !.accounts = snapshot.accounts,
                 !.contracts = snapshot.contracts,
                 !.block = [number |-> snapshot.block_number,
                            hash |-> snapshot.block_hash,
                            timestamp |-> snapshot.timestamp],
                 !.current_block_number = snapshot.block_number,
                 !.state_root = snapshot.state_root]

\* target_snapshot is None
NoTarget == -1

\* rollback_to_block's loop with a break at the first snapshot at or below the
\* target, instead of running on to the latest one
RECURSIVE latest_snapshot_First(_, _, _, _)
latest_snapshot_First(s, block_number, snap_block, target) ==
    IF snap_block \notin DOMAIN s.snapshots THEN target
    ELSE IF ~s.snapshots[snap_block].exists
    THEN latest_snapshot_First(s, block_number, snap_block + 1, target)
    ELSE IF snap_block <= block_number THEN snap_block
    ELSE target

\* rollback_to_block's loop over sorted(self.snapshots.keys()), from snap_block
\* on: the latest snapshot at or below block_number, break at the first above it
RECURSIVE latest_snapshot(_, _, _, _)
latest_snapshot(s, block_number, snap_block, target) ==
    IF snap_block \notin DOMAIN s.snapshots THEN target
    ELSE IF ~s.snapshots[snap_block].exists
    THEN latest_snapshot(s, block_number, snap_block + 1, target)
    ELSE IF snap_block <= block_number
    THEN latest_snapshot(s, block_number, snap_block + 1, snap_block)
    ELSE target

\* rollback_to_block: the object afterwards and the exception raised, if any
rollback_to_block(s, block_number) ==
    IF block_number > s.current_block_number
    THEN [s |-> s, raised |-> "Cannot rollback to future block"]
    ELSE LET target_snapshot == latest_snapshot(s, block_number, 0, NoTarget)
         IN IF target_snapshot = NoTarget
            THEN [s |-> s, raised |-> "No snapshot available"]
            ELSE [s |-> restore_snapshot(s, target_snapshot), raised |-> ""]

\* StateMachine.__init__: the state dict with the given accounts and block
\* timestamp, no snapshots, block number 0, the state root of that state
StateMachine(accounts, heap, timestamp) ==
    LET s0 == [accounts |-> accounts,
               heap |-> heap,
               contracts |-> [a \in AccountKeys |-> NoContract],
               block |-> [number |-> 0, hash |-> ZeroHash, timestamp |-> timestamp],
               snapshots |-> [h \in Heights |-> NoSnapshot],
               current_block_number |-> 0,
               state_root |-> NoRoot]
    IN [s0 EXCEPT !.state_root = calculate_state_root(s0)]

\* StateMachine(initial_state), initial_state holding account A with balance 2
WithAccountA ==
    StateMachine([a \in AccountKeys |-> IF a = "A" THEN 1 ELSE 0], <<Account(2, "")>>,
                 "constructed")

SMFields ==
    /\ sm = WithAccountA
    /\ smResult = "init"
    /\ smApplied = 0

SMConstructed ==
    /\ SMFields
    /\ FinIdle
    /\ chain = <<>>
    /\ block_hash_map = <<>>
    /\ addResult = "none"
    /\ chainValid = "none"
    /\ PipeIdle
    /\ ConsIdle
    /\ AuxIdle

ApplyTransaction(tx) ==
    LET r == apply_transaction(sm, tx)
    IN /\ r.success => smApplied < MaxApplied
       /\ sm' = Compact(r.s)
       /\ smResult' = IF r.success THEN "success" ELSE r.error
       /\ smApplied' = IF r.success THEN smApplied + 1 ELSE smApplied
       /\ UNCHANGED notSMVars

\* create_snapshot(h); h = 0 also stands for create_snapshot()
CreateSnapshot(h) ==
    /\ (IF h = 0 THEN sm.current_block_number ELSE h) \in Heights
    /\ sm' = Compact(create_snapshot(sm, h))
    /\ smResult' = "snapshot"
    /\ UNCHANGED <<smApplied, notSMVars>>

RestoreSnapshot(h) ==
    /\ IF sm.snapshots[h].exists
       THEN /\ sm' = Compact(restore_snapshot(sm, h))
            /\ smResult' = "restored"
       ELSE /\ sm' = sm
            /\ smResult' = "No snapshot found"
    /\ UNCHANGED <<smApplied, notSMVars>>

NextSM ==
    \/ \E tx \in TxInputs : ApplyTransaction(tx)
    \/ \E h \in Heights : CreateSnapshot(h)
    \/ \E h \in Heights : RestoreSnapshot(h)

SpecSM == SMConstructed /\ [][NextSM]_vars

\* ---- what the StateMachine claims read ----
RECURSIVE SumBalances(_, _)
SumBalances(s, i) ==
    IF i > Len(AccountKeySeq) THEN 0
    ELSE (IF s.accounts[AccountKeySeq[i]] = 0 THEN 0
          ELSE s.heap[s.accounts[AccountKeySeq[i]]].balance) + SumBalances(s, i + 1)

\* sum(account['balance'] for account in self.state['accounts'].values())
TotalBalance(s) == SumBalances(s, 1)

SenderMissing(s, tx) == s.accounts[tx.from_address] = 0
SenderBalance(s, tx) == s.heap[s.accounts[tx.from_address]].balance

\* C6 as claimed: a stored snapshot keeps showing the account map it was taken
\* from whatever is applied afterwards, and restore_snapshot(h) brings back that
\* account map, the contracts and the state root of the moment of the snapshot.
C6_SnapshotRoundTrip ==
    /\ [](\A h \in Heights :
             sm.snapshots[h].exists =>
                 Deep(sm.snapshots[h].accounts, sm.heap) = sm.snapshots[h].taken)
    /\ [][\A h \in Heights :
             (RestoreSnapshot(h) /\ sm.snapshots[h].exists) =>
                 /\ Deep(sm'.accounts, sm'.heap) = sm.snapshots[h].taken
                 /\ sm'.contracts = sm.snapshots[h].contracts
                 /\ sm'.state_root = sm.snapshots[h].state_root]_vars

\* C7 as claimed: a transaction that apply_transaction applies successfully
\* leaves the sum of all account balances as it was. Read for transactions of
\* positive value, the ones a transfer or a contract creation is meant to carry.
C7_BalanceConserved ==
    [][\A tx \in TxInputs :
          (ApplyTransaction(tx) /\ apply_transaction(sm, tx).success /\ tx.value > 0) =>
              TotalBalance(sm') = TotalBalance(sm)]_vars

\* C8 as claimed: every account balance is >= 0 after any sequence of
\* apply_transaction calls.
C8_BalancesNonNegative ==
    \A a \in AccountKeys :
        sm.accounts[a] # 0 => sm.heap[sm.accounts[a]].balance >= 0

\* C9 as claimed: apply_transaction fails and leaves the accounts, the contracts
\* and the state root unchanged when the sender has no account or holds less
\* than amount + fee. Read for transactions of positive value.
C9_FailsWithoutFunds ==
    [][\A tx \in TxInputs :
          ( /\ ApplyTransaction(tx)
            /\ tx.value > 0
            /\ \/ SenderMissing(sm, tx)
               \/ SenderBalance(sm, tx) < tx.value + tx.fee ) =>
              /\ smApplied' = smApplied
              /\ smResult' # "success"
              /\ Deep(sm'.accounts, sm'.heap) = Deep(sm.accounts, sm.heap)
              /\ sm'.contracts = sm.contracts
              /\ sm'.state_root = sm.state_root]_vars

(***************************************************************************)
(* ExecutionPipeline                                                       *)
(***************************************************************************)

\* ---- bounds ----
MaxBlockTxs == 3         \* transactions in one block

\* ---- program constants ----
BaseGas == 21000
GasPerDataByte == 68
DefaultBlockGasLimit == 10000000

\* the four hooks a plugin may define; each hook returns, raises, or is absent
HookKinds == {"pre_process_transaction", "post_process_transaction",
              "pre_process_block", "post_process_block"}
QuietPlugin == [k \in HookKinds |-> "returns"]
RaisingPlugin(kind) == [k \in HookKinds |-> IF k = kind THEN "raises" ELSE "absent"]
\* options['plugins']: none, or a plugin with one raising hook registered before
\* a plugin whose hooks all return
PluginConfigs == {<<>>} \cup { <<RaisingPlugin(k), QuietPlugin>> : k \in HookKinds }

\* the plugin list with every raising hook replaced by one that returns
Calm(plugs) ==
    [i \in DOMAIN plugs |->
        [k \in HookKinds |-> IF plugs[i][k] = "raises" THEN "returns" ELSE plugs[i][k]]]

\* the block gas limits of the contexts handed to process_block
SmallBlockGasLimit == 100
LargeBlockGasLimit == 100000

\* a transaction as the pipeline reads it: id, validate(), data, and the fields
\* the state machine reads
PipeTx(id, valid, gas, value) ==
    [id |-> id, valid |-> valid, data_len |-> 0, from_address |-> "A", to_address |-> "B",
     value |-> value, gas_limit |-> gas, nonce |-> 0, fee |-> 0]

\* the kinds of transaction: a transfer of 1 with gas limit 60000, the same with
\* gas limit 80000, one that fails validate(), one with gas limit 60, and one
\* of a value the sender never holds
TxKinds ==
    [ok    |-> PipeTx(0, TRUE, 60000, 1),
     big   |-> PipeTx(0, TRUE, 80000, 1),
     bad   |-> PipeTx(0, FALSE, 60000, 1),
     tiny  |-> PipeTx(0, TRUE, 60, 1),
     broke |-> PipeTx(0, TRUE, 60000, 3)]

BlockKinds == {"ok", "big", "bad"}

\* block.transactions for a list of kinds: transaction i has id i
BlockOf(kinds) == [i \in DOMAIN kinds |-> [TxKinds[kinds[i]] EXCEPT !.id = i]]

RECURSIVE KindLists(_)
KindLists(n) ==
    IF n = 0 THEN {<<>>}
    ELSE KindLists(n - 1)
         \cup { Append(l, k) : l \in {m \in KindLists(n - 1) : Len(m) = n - 1},
                               k \in BlockKinds }

\* the calls of process_block: every block of up to MaxBlockTxs transactions
\* under the large limit, and two transactions of gas limit 60 under limit 100
BlockCalls ==
    { [transactions |-> BlockOf(l), gas_limit |-> LargeBlockGasLimit] :
        l \in KindLists(MaxBlockTxs) }
    \cup { [transactions |-> BlockOf(<<"tiny", "tiny">>), gas_limit |-> SmallBlockGasLimit] }

\* the calls of process_transaction
TxCalls == { [TxKinds[k] EXCEPT !.id = 1] : k \in DOMAIN TxKinds }

\* GasSystem.estimate_gas; the transactions carry to_address and no attribute
\* `to`, so the contract-creation surcharge never applies
estimate_gas(tx) == BaseGas + GasPerDataByte * tx.data_len

\* create_transaction_receipt
NewReceipt(tx) ==
    [transaction_id |-> tx.id, status |-> "pending", gas_used |-> 0,
     cumulative_gas_used |-> 0, log |-> "none"]

\* set_status('failed') and add_log({'type': 'error', 'message': message})
Failed(receipt, message) == [receipt EXCEPT !.status = "failed", !.log = message]

\* for plugin in self.plugins: if hasattr(plugin, kind): await plugin.kind(...)
\* gives the plugins whose hook was called and whether the last one raised
RECURSIVE RunHooks(_, _, _)
RunHooks(plugs, kind, i) ==
    IF i > Len(plugs) THEN [ran |-> <<>>, raised |-> FALSE]
    ELSE IF plugs[i][kind] = "absent" THEN RunHooks(plugs, kind, i + 1)
    ELSE IF plugs[i][kind] = "raises" THEN [ran |-> <<i>>, raised |-> TRUE]
    ELSE LET rest == RunHooks(plugs, kind, i + 1)
         IN [ran |-> <<i>> \o rest.ran, raised |-> rest.raised]

HookLog(kind, ran) == [j \in DOMAIN ran |-> <<kind, ran[j]>>]

\* `name = expression` of the code: the expression is evaluated once and the
\* rest of the method reads its value
Bind(v, Rest(_)) == CHOOSE out \in { Rest(value) : value \in {v} } : TRUE

\* process_transaction: the state machine afterwards, the receipt returned,
\* whether the state machine applied the transaction, and the hooks called
process_transaction(s, plugs, tx) ==
    LET receipt == NewReceipt(tx)
    IN IF ~tx.valid
       THEN [s |-> s, receipt |-> Failed(receipt, "validation"), applied |-> FALSE,
             hooks |-> <<>>]
       ELSE LET pre == RunHooks(plugs, "pre_process_transaction", 1)
                preLog == HookLog("pre_process_transaction", pre.ran)
            IN IF pre.raised
               THEN [s |-> s, receipt |-> Failed(receipt, "exception"), applied |-> FALSE,
                     hooks |-> preLog]
               ELSE IF tx.gas_limit < estimate_gas(tx)
               THEN [s |-> s, receipt |-> Failed(receipt, "Insufficient gas limit"),
                     applied |-> FALSE, hooks |-> preLog]
               ELSE Bind(apply_transaction(s, tx), LAMBDA result :
                      LET done == IF result.success
                                  THEN [receipt EXCEPT !.status = "successful",
                                                       !.gas_used = tx.gas_limit \div 2]
                                  ELSE Failed(receipt, result.error)
                          post == RunHooks(plugs, "post_process_transaction", 1)
                      IN [s |-> result.s,
                          receipt |-> IF post.raised THEN Failed(done, "exception")
                                      ELSE done,
                          applied |-> result.success,
                          hooks |-> preLog
                                    \o HookLog("post_process_transaction", post.ran)])

\* _create_gas_limit_exceeded_receipt
create_gas_limit_exceeded_receipt(tx) ==
    [transaction_id |-> tx.id, status |-> "failed", gas_used |-> 0,
     cumulative_gas_used |-> 0, log |-> "Block gas limit exceeded"]

\* what the loop of process_block carries from one transaction to the next
LoopStart(s) ==
    [s |-> s, cumulative_gas_used |-> 0, receipts |-> <<>>, applied |-> <<>>,
     executed |-> <<>>, hooks |-> <<>>]

\* the body of the loop for transaction i
process_block_step(acc, plugs, tx, gas_limit) ==
    IF acc.cumulative_gas_used + tx.gas_limit > gas_limit
    THEN [acc EXCEPT !.receipts = Append(@, create_gas_limit_exceeded_receipt(tx)),
                     !.applied = Append(@, FALSE),
                     !.executed = Append(@, FALSE)]
    ELSE Bind(process_transaction(acc.s, plugs, tx), LAMBDA r :
           LET cumulative == acc.cumulative_gas_used + r.receipt.gas_used
           IN [s |-> r.s, cumulative_gas_used |-> cumulative,
               receipts |-> Append(acc.receipts,
                                   [r.receipt EXCEPT !.cumulative_gas_used = cumulative]),
               applied |-> Append(acc.applied, r.applied),
               executed |-> Append(acc.executed, TRUE),
               hooks |-> acc.hooks \o r.hooks])

\* faulty variant: the loop ends at the first transaction over the block gas limit
RECURSIVE process_block_loop_Break(_, _, _, _, _)
process_block_loop_Break(acc, plugs, txs, gas_limit, i) ==
    IF i > Len(txs) THEN acc
    ELSE Bind(process_block_step(acc, plugs, txs[i], gas_limit), LAMBDA next :
           IF ~next.executed[i] THEN next
           ELSE process_block_loop_Break(next, plugs, txs, gas_limit, i + 1))

\* for transaction in block.transactions: ... of process_block
RECURSIVE process_block_loop(_, _, _, _, _)
process_block_loop(acc, plugs, txs, gas_limit, i) ==
    IF i > Len(txs) THEN acc
    ELSE Bind(process_block_step(acc, plugs, txs[i], gas_limit), LAMBDA next :
           process_block_loop(next, plugs, txs, gas_limit, i + 1))

\* process_block: how the call ended, the state machine afterwards, the list
\* returned, and per transaction whether it was handed to process_transaction
\* and whether the state machine applied it
process_block(s, plugs, txs, gas_limit) ==
    LET pre == RunHooks(plugs, "pre_process_block", 1)
        preLog == HookLog("pre_process_block", pre.ran)
    IN IF pre.raised
       THEN [outcome |-> "raised", s |-> s, receipts |-> <<>>, applied |-> <<>>,
             executed |-> <<>>, hooks |-> preLog, cumulative_gas_used |-> 0]
       ELSE Bind(process_block_loop(LoopStart(s), plugs, txs, gas_limit, 1), LAMBDA acc :
              LET post == RunHooks(plugs, "post_process_block", 1)
                  log == preLog \o acc.hooks \o HookLog("post_process_block", post.ran)
              IN IF post.raised
                 THEN [outcome |-> "raised", s |-> acc.s, receipts |-> <<>>,
                       applied |-> acc.applied, executed |-> acc.executed, hooks |-> log,
                       cumulative_gas_used |-> acc.cumulative_gas_used]
                 ELSE [outcome |-> "returned", s |-> acc.s, receipts |-> acc.receipts,
                       applied |-> acc.applied, executed |-> acc.executed, hooks |-> log,
                       cumulative_gas_used |-> acc.cumulative_gas_used])

\* no pipeline call made yet
NoCall ==
    [call |-> "none", transactions |-> <<>>, gas_limit |-> DefaultBlockGasLimit,
     outcome |-> "none", receipts |-> <<>>, applied |-> <<>>, executed |-> <<>>,
     hooks |-> <<>>, cumulative_gas_used |-> 0]

\* create_execution_pipeline({'stateMachine': StateMachine(A holds 2), 'gasCalculator':
\* GasSystem(), 'plugins': ...})
PipeConstructed ==
    /\ SMFields
    /\ plugins \in PluginConfigs
    /\ pipe = NoCall
    /\ FinIdle
    /\ ChainIdle
    /\ ConsIdle
    /\ AuxIdle

RECURSIVE CountTrue(_)
CountTrue(flags) ==
    IF flags = <<>> THEN 0
    ELSE (IF Head(flags) THEN 1 ELSE 0) + CountTrue(Tail(flags))

ProcessTransaction(tx) ==
    \E r \in {process_transaction(sm, plugins, tx)} :
       /\ r.applied => smApplied < MaxApplied
       /\ sm' = Compact(r.s)
       /\ smApplied' = IF r.applied THEN smApplied + 1 ELSE smApplied
       /\ pipe' = [call |-> "process_transaction", transactions |-> <<tx>>,
                   gas_limit |-> DefaultBlockGasLimit, outcome |-> "returned",
                   receipts |-> <<r.receipt>>, applied |-> <<r.applied>>,
                   executed |-> <<TRUE>>, hooks |-> r.hooks,
                   cumulative_gas_used |-> r.receipt.gas_used]
       /\ UNCHANGED <<plugins, smResult, notPipeVars>>

ProcessBlock(c) ==
    \E r \in {process_block(sm, plugins, c.transactions, c.gas_limit)} :
       /\ smApplied + CountTrue(r.applied) <= MaxApplied
       /\ sm' = Compact(r.s)
       /\ smApplied' = smApplied + CountTrue(r.applied)
       /\ pipe' = [call |-> "process_block", transactions |-> c.transactions,
                   gas_limit |-> c.gas_limit, outcome |-> r.outcome,
                   receipts |-> r.receipts, applied |-> r.applied,
                   executed |-> r.executed, hooks |-> r.hooks,
                   cumulative_gas_used |-> r.cumulative_gas_used]
       /\ UNCHANGED <<plugins, smResult, notPipeVars>>

NextPipeline ==
    \/ \E tx \in TxCalls : ProcessTransaction(tx)
    \/ \E c \in BlockCalls : ProcessBlock(c)

SpecPipeline == PipeConstructed /\ [][NextPipeline]_vars

\* ---- what the pipeline claims read ----
RECURSIVE GasUsedBefore(_, _)
GasUsedBefore(receipts, i) ==
    IF i <= 1 THEN 0 ELSE receipts[i - 1].gas_used + GasUsedBefore(receipts, i - 1)

RECURSIVE GasLimitsExecutedBefore(_, _, _)
GasLimitsExecutedBefore(txs, executed, i) ==
    IF i <= 1 THEN 0
    ELSE (IF executed[i - 1] THEN txs[i - 1].gas_limit ELSE 0)
         + GasLimitsExecutedBefore(txs, executed, i - 1)

Statuses(receipts) == [i \in DOMAIN receipts |-> receipts[i].status]

BlockReturned == pipe.call = "process_block" /\ pipe.outcome = "returned"

\* C14: the list process_block returns holds one receipt per transaction of the
\* block, in transaction order, each failed or successful; a transaction gets
\* the synthetic receipt exactly when it does not fit under the block gas limit
\* on top of the gas used so far, whatever happened to the transactions before
\* it, and is handed to process_transaction otherwise.
C14_OneReceiptPerTransaction ==
    BlockReturned =>
        /\ Len(pipe.receipts) = Len(pipe.transactions)
        /\ \A i \in DOMAIN pipe.transactions :
              /\ pipe.receipts[i].transaction_id = pipe.transactions[i].id
              /\ pipe.receipts[i].status \in {"successful", "failed"}
              /\ pipe.executed[i] <=>
                    GasUsedBefore(pipe.receipts, i) + pipe.transactions[i].gas_limit
                        <= pipe.gas_limit
              /\ ~pipe.executed[i] =>
                    pipe.receipts[i] = create_gas_limit_exceeded_receipt(pipe.transactions[i])

\* a block whose first transaction fails validation, whose second is applied
\* and whose third is over the block gas limit: three receipts
C14_Witness ==
    /\ BlockReturned
    /\ Len(pipe.transactions) = 3
    /\ pipe.receipts[1].log = "validation"
    /\ pipe.receipts[2].status = "successful"
    /\ pipe.receipts[3].log = "Block gas limit exceeded"

\* C15 as claimed: after the first transaction over the block gas limit every
\* later transaction of the block gets the synthetic receipt and none is
\* executed.
C15_NothingAfterGasLimit ==
    BlockReturned =>
        \A i, j \in DOMAIN pipe.transactions :
            (i < j /\ pipe.receipts[i].log = "Block gas limit exceeded") =>
                /\ pipe.receipts[j].log = "Block gas limit exceeded"
                /\ ~pipe.executed[j]

\* C16 as claimed: a transaction is executed only while the gas limits of the
\* transactions executed before it plus its own stay within the block gas limit,
\* the cumulative gas used stays within it, and under limit 100 two transactions
\* of gas limit 60 give a successful receipt and then a gas-limit failure.
C16_GasLimitsWithinBlockLimit ==
    BlockReturned =>
        /\ \A i \in DOMAIN pipe.transactions :
              pipe.executed[i] =>
                  GasLimitsExecutedBefore(pipe.transactions, pipe.executed, i)
                      + pipe.transactions[i].gas_limit <= pipe.gas_limit
        /\ pipe.cumulative_gas_used <= pipe.gas_limit
        /\ ( /\ pipe.gas_limit = SmallBlockGasLimit
             /\ pipe.transactions = BlockOf(<<"tiny", "tiny">>) ) =>
               /\ pipe.receipts[1].status = "successful"
               /\ pipe.receipts[2].status = "failed"
               /\ pipe.receipts[2].log = "Block gas limit exceeded"

\* C17 as claimed: process_transaction returns a receipt that is not pending,
\* failed with the accounts unchanged when validation fails, the gas limit is
\* under the estimate or the state machine rejects the transaction, and
\* successful exactly when the state machine applied the transaction.
C17_ReceiptMatchesOutcome ==
    [][\A tx \in TxCalls :
          ProcessTransaction(tx) =>
              /\ pipe'.outcome = "returned"
              /\ pipe'.receipts[1].status # "pending"
              /\ ( \/ ~tx.valid
                   \/ tx.gas_limit < estimate_gas(tx)
                   \/ ~apply_transaction(sm, tx).success ) =>
                     /\ pipe'.receipts[1].status = "failed"
                     /\ Deep(sm'.accounts, sm'.heap) = Deep(sm.accounts, sm.heap)
              /\ pipe'.receipts[1].status = "successful" <=> pipe'.applied[1]]_vars

\* C18 as claimed: with a hook that raises, a pipeline call ends as it does when
\* that hook returns: it returns, with the same receipt statuses, the same
\* transactions applied and the same hooks called.
C18_RaisingHookChangesNothing ==
    [][/\ \A c \in BlockCalls :
             ProcessBlock(c) =>
                 LET calm == process_block(sm, Calm(plugins), c.transactions, c.gas_limit)
                 IN /\ pipe'.outcome = "returned"
                    /\ Statuses(pipe'.receipts) = Statuses(calm.receipts)
                    /\ pipe'.applied = calm.applied
                    /\ pipe'.hooks = calm.hooks
       /\ \A tx \in TxCalls :
             ProcessTransaction(tx) =>
                 LET calm == process_transaction(sm, Calm(plugins), tx)
                 IN /\ pipe'.receipts[1].status = calm.receipt.status
                    /\ pipe'.applied[1] = calm.applied
                    /\ pipe'.hooks = calm.hooks]_vars

(***************************************************************************)
(* BlockProducer                                                           *)
(***************************************************************************)

\* self.mempool: the repository's MemPool, whose get_transactions is a plain
\* method (its list cannot be awaited) and which has no get_all_transactions,
\* or a mempool whose two methods are coroutines
MempoolKinds == {"MemPool", "coroutines"}
\* self.consensus: an object with get_validator(), or the repository's
\* ProofOfWork, which has none
ConsensusKinds == {"get_validator", "ProofOfWork"}

\* what the mempool holds: transactions with the outcome of their validate()
PendingLists == {<<>>, <<[id |-> 1, valid |-> TRUE]>>,
                 <<[id |-> 1, valid |-> FALSE], [id |-> 2, valid |-> TRUE]>>}

\* the collaborators and options of one produce_block call
ProducerEnvs ==
    [mempool : MempoolKinds, consensus : ConsensusKinds, pending : PendingLists,
     include_all_transactions : BOOLEAN]

Raised(error) == [raised |-> TRUE, error |-> error, value |-> <<>>]
Returned(value) == [raised |-> FALSE, error |-> "none", value |-> value]

\* select_transactions: await self.mempool.get_all_transactions() or
\* get_transactions(), then the transactions whose validate() passes (the
\* count and size caps are out of reach of the lists above)
select_transactions(env) ==
    IF env.mempool = "MemPool"
    THEN IF env.include_all_transactions THEN Raised("AttributeError")
         ELSE Raised("TypeError")
    ELSE Returned(SelectSeq(env.pending, LAMBDA tx : tx.valid))

\* create_new_block: Block(index, previous_hash, transactions, validator,
\* timestamp, gas_limit); Block.__init__ takes no gas_limit
create_new_block(c, transactions, env) ==
    IF env.consensus # "get_validator" THEN Raised("AttributeError")
    ELSE Raised("TypeError")

\* BlockProducer.validate_block: the structural checks, then
\* self.blockchain.get_block(index - 1) for index > 0, which Blockchain does
\* not have, else calculate_block_size, which calls block.to_dict()
producer_validate_block(c, block) == Raised("AttributeError")

\* ProductionResult(success=False, error=str(e)) of the except clause
ProductionFailed(c, m, error) ==
    [success |-> FALSE, error |-> error, validation |-> "none", block |-> <<>>,
     chain |-> c, block_hash_map |-> m]

\* faulty variant: the block is appended before it is built and validated
produce_block_PartialCommit(c, m, env) ==
    LET block == NewBlock(get_last_block(c).index + 1, get_last_block(c).hash, <<>>, 0)
    IN ProductionFailed(Append(c, block), HashMapPut(m, block), "TypeError")

\* produce_block: the ProductionResult, and the chain and hash index afterwards
produce_block(c, m, env) ==
    LET selected == select_transactions(env)
    IN IF selected.raised THEN ProductionFailed(c, m, selected.error)
       ELSE LET created == create_new_block(c, selected.value, env)
            IN IF created.raised THEN ProductionFailed(c, m, created.error)
               ELSE LET block == created.value
                        validation == producer_validate_block(c, block)
                    IN IF validation.raised THEN ProductionFailed(c, m, validation.error)
                       ELSE IF ~validation.value
                       THEN ProductionFailed(c, m, "Block validation failed")
                       ELSE IF ~is_valid_block(c, block)
                       THEN ProductionFailed(c, m, "Invalid block")
                       \* add_block has appended and returned None, which
                       \* `await` cannot take
                       ELSE ProductionFailed(Append(c, block), HashMapPut(m, block),
                                             "TypeError")

\* BlockProducer({'blockchain': Blockchain(), ...})
ProducerConstructed ==
    /\ chain = <<create_genesis_block>>
    /\ block_hash_map = HashMapPut(<<>>, create_genesis_block)
    /\ addResult = "none"
    /\ chainValid = "none"
    /\ production = NoProduction
    /\ pow = NoPow
    /\ FinIdle
    /\ SMIdle
    /\ PipeIdle
    /\ AuxIdle

ProduceBlock(env) ==
    \E r \in {produce_block(chain, block_hash_map, env)} :
       /\ chain' = r.chain
       /\ block_hash_map' = r.block_hash_map
       /\ production' = [call |-> "produce_block", success |-> r.success,
                         error |-> r.error, validation |-> r.validation,
                         block |-> r.block]
       /\ UNCHANGED <<addResult, chainValid, pow, notConsVars>>

\* produce_block calls, between blocks that reach the chain through add_block
NextProducer ==
    \/ \E env \in ProducerEnvs : ProduceBlock(env)
    \/ \E b \in BlocksFor(chain) : add_block(b)

SpecProducer == ProducerConstructed /\ [][NextProducer]_vars

MaxDifficulty == 2       \* largest difficulty a ProofOfWork is constructed with

\* ---- program constants ----
DefaultReward == 50

Difficulties == 0..MaxDifficulty

\* the number of '0' characters the hex digest starts with; sha256 fixes it per
\* digest, and the digests of successive nonces differ in it
LeadingZeros(hash) == (hash \div 3) % (MaxDifficulty + 1)

\* faulty variant: one zero fewer is enough
startswith_zeros_OneFewer(hash, difficulty) == difficulty - 1 <= LeadingZeros(hash)

\* block_hash.startswith("0" * self.difficulty)
startswith_zeros(hash, difficulty) == difficulty <= LeadingZeros(hash)

\* a transaction dict of the list handed to mine_block
UserTx == [sender |-> "A", receiver |-> "B", amount |-> 1]
\* Transaction(sender="0", receiver=miner_address, amount=self.reward).to_dict()
RewardTx(miner_address, reward) ==
    [sender |-> "0", receiver |-> miner_address, amount |-> reward]

\* the transaction lists handed to mine_block
MineInputs == {<<>>, <<UserTx>>}

\* the lists a caller hands to mine_block: a new list, or the list object it
\* handed to the previous call, which that call has appended to
MineCalls(p) == { t \in MineInputs \cup {p.transactions} : Len(t) < 2 }

\* the mining loop: the search has ended with the block sealed, or runs on
\* beyond the nonces of the model
RECURSIVE mining_loop(_, _)
mining_loop(block, difficulty) ==
    Bind(calculate_hash(block), LAMBDA block_hash :
       IF startswith_zeros(block_hash, difficulty)
       THEN [found |-> TRUE, block |-> [block EXCEPT !.hash = block_hash]]
       ELSE IF block.nonce + 1 \notin Nonces
       THEN [found |-> FALSE, block |-> block]
       ELSE mining_loop([block EXCEPT !.nonce = @ + 1], difficulty))

\* ProofOfWork.mine_block
mine_block(c, difficulty, reward, transactions, miner_address) ==
    LET previous_block == get_last_block(c)
        index == previous_block.index + 1
        previous_hash == previous_block.hash
        block == NewBlock(index, previous_hash,
                          Append(transactions, RewardTx(miner_address, reward)), 0)
    IN mining_loop(block, difficulty)

\* ProofOfWork.validate_block
pow_validate_block(c, difficulty, reward, block) ==
    /\ startswith_zeros(block.hash, difficulty)
    /\ is_valid_block(c, block)
    /\ LET mining_rewards == SelectSeq(block.transactions, LAMBDA tx : tx.sender = "0")
       IN /\ Len(mining_rewards) = 1
          /\ mining_rewards[1].amount = reward

\* the blocks handed to validate_block: for the tip of the chain, every nonce
\* and transaction list, with the stored hash fresh or that of the other nonce
PowCandidates(c, reward) ==
    LET last == get_last_block(c)
    IN { BlockRec(last.index + 1, last.hash, Append(t, RewardTx("miner", reward)), n,
                  sha256_block(last.index + 1, last.hash,
                               Append(t, RewardTx("miner", reward)), h)) :
           t \in MineInputs, n \in Nonces, h \in Nonces }

\* ProofOfWork(Blockchain(), difficulty)
PowConstructed ==
    /\ chain = <<create_genesis_block>>
    /\ block_hash_map = HashMapPut(<<>>, create_genesis_block)
    /\ addResult = "none"
    /\ chainValid = "none"
    /\ production = NoProduction
    /\ \E difficulty \in Difficulties :
          pow = [call |-> "constructed", difficulty |-> difficulty,
                 reward |-> DefaultReward, block |-> create_genesis_block,
                 transactions |-> <<>>, result |-> "none"]
    /\ FinIdle
    /\ SMIdle
    /\ PipeIdle
    /\ AuxIdle

MineBlock(transactions) ==
    \E r \in {mine_block(chain, pow.difficulty, pow.reward, transactions, "miner")} :
       /\ r.found
       /\ pow' = [pow EXCEPT !.call = "mine_block", !.block = r.block,
                             !.transactions = r.block.transactions, !.result = "none"]
       /\ UNCHANGED <<chainVars, production, notConsVars>>

ValidateBlock(block) ==
    /\ pow' = [pow EXCEPT !.call = "validate_block", !.block = block,
                          !.result = IF pow_validate_block(chain, pow.difficulty,
                                                           pow.reward, block)
                                     THEN "True" ELSE "False"]
    /\ UNCHANGED <<chainVars, production, notConsVars>>

\* blockchain.add_block(block) with the block mine_block returned
AddMined ==
    /\ pow.call = "mine_block"
    /\ add_block(pow.block)

NextPow ==
    \/ \E transactions \in MineCalls(pow) : MineBlock(transactions)
    \/ \E block \in PowCandidates(chain, pow.reward) : ValidateBlock(block)
    \/ AddMined

SpecPow == PowConstructed /\ [][NextPow]_vars

\* C20: the block mine_block returns is at height last + 1, carries the last
\* block's hash as previous hash, its stored hash equals its recomputed hash
\* and starts with at least `difficulty` zero digits; validate_block returns
\* False for every block whose hash starts with fewer.
C20_MinedBlockMeetsDifficulty ==
    [][/\ \A transactions \in MineCalls(pow) :
             MineBlock(transactions) =>
                /\ pow'.block.index = get_last_block(chain).index + 1
                /\ pow'.block.previous_hash = get_last_block(chain).hash
                /\ pow'.block.hash = calculate_hash(pow'.block)
                /\ LeadingZeros(pow'.block.hash) >= pow.difficulty
       /\ \A block \in PowCandidates(chain, pow.reward) :
             (ValidateBlock(block) /\ LeadingZeros(block.hash) < pow.difficulty)
                => pow'.result = "False"]_vars

\* mine_block at difficulty 2 has returned a block found at the second nonce,
\* on a chain that already holds a mined block
C20_Witness ==
    /\ pow.call = "mine_block"
    /\ pow.difficulty = MaxDifficulty
    /\ pow.block.nonce = 1
    /\ Len(chain) > 1
    /\ pow.block.index = Len(chain)
    /\ LeadingZeros(pow.block.hash) >= MaxDifficulty

\* the reward transactions of a block: the dicts with sender "0"
RewardsOf(block) == SelectSeq(block.transactions, LAMBDA tx : tx.sender = "0")

\* C21 (ProofOfWork): every block mine_block returns, whatever list it was
\* handed, holds exactly one reward transaction, of the configured amount, and
\* validate_block accepts it against the chain tip it was mined on.
C21_OneRewardAndAccepted ==
    [][\A transactions \in MineCalls(pow) :
          MineBlock(transactions) =>
             /\ Len(RewardsOf(pow'.block)) = 1
             /\ RewardsOf(pow'.block)[1].amount = pow.reward
             /\ pow_validate_block(chain, pow.difficulty, pow.reward, pow'.block)]_vars

(***************************************************************************)
(* StateMachine: transfers, blocks, rollback, two instances                *)
(***************************************************************************)

\* self.state['accounts'].get(a, {}).get('balance', 0)
BalanceOf(s, a) == IF s.accounts[a] = 0 THEN 0 ELSE s.heap[s.accounts[a]].balance

\* C24 as claimed: a successful apply_transaction of a transfer of amount a > 0
\* with fee f leaves the recipient with an account, and every account's balance
\* is what it was, less a + f for the sender, plus a for the recipient.
C24_TransferDebitsAmountPlusFee ==
    [][\A tx \in TxInputs :
          ( /\ ApplyTransaction(tx)
            /\ apply_transaction(sm, tx).success
            /\ tx.to_address # ""
            /\ tx.value > 0 ) =>
              /\ sm'.accounts[tx.to_address] # 0
              /\ \A a \in AccountKeys :
                    BalanceOf(sm', a) =
                        BalanceOf(sm, a)
                          - (IF a = tx.from_address THEN tx.value + tx.fee ELSE 0)
                          + (IF a = tx.to_address THEN tx.value ELSE 0)]_vars

\* ---- blocks ----
\* what time.time() may read
Clock == {"t1", "t2"}

\* the transfers the blocks carry
TransferInputs ==
    { tx \in TxInputs :
        /\ tx.to_address \in UserAddrs \ {tx.from_address}
        /\ tx.value = 1 /\ tx.gas_limit = MinGasLimit /\ tx.fee = 0 }

\* a block as apply_block reads it: index, hash, timestamp, transactions
LedgerBlock(index, transactions) ==
    [index |-> index, hash |-> sha256_block(index, ZeroHash, transactions, 0),
     timestamp |-> "block", transactions |-> transactions]

LedgerBlocks ==
    { LedgerBlock(index, transactions) :
        index \in Heights,
        transactions \in {<<>>} \cup { <<tx>> : tx \in TransferInputs } }

\* apply_block's loop: apply_transaction for each transaction in turn, failed
\* ones included; `applied` counts the successful ones
RECURSIVE apply_transactions(_, _, _)
apply_transactions(s, transactions, applied) ==
    IF transactions = <<>> THEN [s |-> s, applied |-> applied]
    ELSE Bind(apply_transaction(s, Head(transactions)),
              LAMBDA r : apply_transactions(r.s, Tail(transactions),
                                            IF r.success THEN applied + 1 ELSE applied))

\* apply_block, the snapshot it takes stamped `now`
apply_block(s, block, now) ==
    LET r == apply_transactions(create_snapshot_at(s, block.index, now),
                                block.transactions, 0)
        s1 == [r.s EXCEPT !.block = [number |-> block.index, hash |-> block.hash,
                                     timestamp |-> block.timestamp],
                          !.current_block_number = block.index]
    IN [s |-> [s1 EXCEPT !.state_root = calculate_state_root(s1)],
        applied |-> r.applied]

\* a block counts as one applied item, whatever its transactions did
ApplyBlock(block) ==
    /\ smApplied < MaxApplied
    /\ \E now \in Clock :
          \E r \in {apply_block(sm, block, now)} :
             /\ sm' = Compact(r.s)
             /\ smResult' = "block"
             /\ smApplied' = smApplied + 1
    /\ UNCHANGED notSMVars

\* the block numbers rollback_to_block is called with
RollbackTargets == Heights \cup {2}

RollbackToBlock(h) ==
    \E r \in {rollback_to_block(sm, h)} :
       /\ sm' = Compact(r.s)
       /\ smResult' = IF r.raised = "" THEN "rolled back" ELSE r.raised
       /\ UNCHANGED <<smApplied, notSMVars>>

NextLedger ==
    \/ \E block \in LedgerBlocks : ApplyBlock(block)
    \/ \E tx \in TransferInputs : ApplyTransaction(tx)
    \/ \E h \in Heights : CreateSnapshot(h)
    \/ \E h \in RollbackTargets : RollbackToBlock(h)

SpecLedger == SMConstructed /\ [][NextLedger]_vars

\* ---- two StateMachine objects fed the same input ----
\* StateMachine(): no accounts, the block timestamp read from the clock
Default(now) == StateMachine([a \in AccountKeys |-> 0], <<>>, now)

\* Two objects built the same way: both StateMachine(), each reading the clock
\* for itself, or both StateMachine(initial_state) with equal initial_state dicts
\* holding account A.
TwinConstructed ==
    /\ \/ \E now1 \in Clock, now2 \in Clock :
             /\ sm = Default(now1)
             /\ twin = Default(now2)
       \/ /\ sm = WithAccountA
          /\ twin = WithAccountA
    /\ smResult = "init"
    /\ smApplied = 0
    /\ FinIdle
    /\ ChainIdle
    /\ PipeIdle
    /\ ConsIdle
    /\ merkle = <<>>
    /\ fork = <<>>
    /\ pos = <<>>
    /\ tasks = <<>>
    /\ mempool = <<>>

\* apply_transaction(tx) on both objects
TwinApplyTransaction(tx) ==
    \E r1 \in {apply_transaction(sm, tx)}, r2 \in {apply_transaction(twin, tx)} :
       /\ r1.success => smApplied < MaxApplied
       /\ sm' = Compact(r1.s)
       /\ twin' = Compact(r2.s)
       /\ smResult' = IF r1.success THEN "success" ELSE r1.error
       /\ smApplied' = IF r1.success THEN smApplied + 1 ELSE smApplied
       /\ UNCHANGED <<merkle, fork, pos, tasks, mempool, finVars, chainVars, pipeVars, consVars>>

\* apply_block(block) on both objects, each stamping its snapshot for itself
TwinApplyBlock(block) ==
    /\ smApplied < MaxApplied
    /\ \E now1 \in Clock, now2 \in Clock :
          /\ sm' = Compact(apply_block(sm, block, now1).s)
          /\ twin' = Compact(apply_block(twin, block, now2).s)
    /\ smResult' = "block"
    /\ smApplied' = smApplied + 1
    /\ UNCHANGED <<merkle, fork, pos, tasks, mempool, finVars, chainVars, pipeVars, consVars>>

NextTwin ==
    \/ \E tx \in TransferInputs : TwinApplyTransaction(tx)
    \/ \E block \in LedgerBlocks : TwinApplyBlock(block)

SpecTwin == TwinConstructed /\ [][NextTwin]_vars

\* C22 as claimed: two StateMachine objects created with the same initial
\* accounts and fed the same blocks and transactions show the same accounts and
\* the same state root.
C22_SameInputSameState ==
    /\ Deep(sm.accounts, sm.heap) = Deep(twin.accounts, twin.heap)
    /\ sm.state_root = twin.state_root

\* the heights at or below h that hold a snapshot
SnapshotsUpTo(s, h) == { g \in DOMAIN s.snapshots : s.snapshots[g].exists /\ g <= h }

\* C23: rollback_to_block(h) raises and leaves the object as it was when h lies
\* above the current block number or no snapshot is stored at or below h; in
\* every other case the current block number becomes the greatest snapshot
\* height at or below h, and the account map, the contracts and the state root
\* are the ones that snapshot holds.
C23_RollbackToNearestBelow ==
    [][\A h \in RollbackTargets :
          (smResult' \notin {"success", "snapshot"} /\ RollbackToBlock(h)) =>
             IF h > sm.current_block_number \/ SnapshotsUpTo(sm, h) = {}
             THEN /\ smResult' \in {"Cannot rollback to future block",
                                    "No snapshot available"}
                  /\ sm' = sm
             ELSE /\ smResult' = "rolled back"
                  /\ sm'.current_block_number \in SnapshotsUpTo(sm, h)
                  /\ \A g \in SnapshotsUpTo(sm, h) : g <= sm'.current_block_number
                  /\ \E g \in {sm'.current_block_number} :
                        /\ Deep(sm'.accounts, sm'.heap) =
                              Deep(sm.snapshots[g].accounts, sm.heap)
                        /\ sm'.contracts = sm.snapshots[g].contracts
                        /\ sm'.state_root = sm.snapshots[g].state_root]_vars

\* a rollback that had two snapshots to choose from and took the later one
C23_Witness ==
    /\ smResult = "rolled back"
    /\ sm.snapshots[0].exists
    /\ sm.snapshots[1].exists
    /\ sm.current_block_number = 1

(***************************************************************************)
(* MerkleTree                                                              *)
(***************************************************************************)

\* ---- bounds ----
MaxLeaves == 4           \* transactions in one tree

\* the transaction strings
LeafTxs == {"a", "b"}

\* the transaction lists a tree is constructed over
LeafLists == UNION { [1..n -> LeafTxs] : n \in 1..MaxLeaves }

\* sha256_hash(str(tx)): one digest per transaction string
sha256_leaf(tx) == IF tx = "a" THEN 1 ELSE 2

\* sha256_hash(left_hash + right_hash): one digest per ordered pair of digests,
\* none of them a leaf digest or the digest of the empty string
sha256_pair(left_hash, right_hash) ==
    2 + ((left_hash + right_hash) * (left_hash + right_hash + 1)) \div 2 + right_hash

\* sha256_hash("")
EmptyDigest == 0

\* build_tree, one pass of the for loop: the pairs of a level hashed, the last
\* leaf of an odd level paired with itself
next_level(leaves) ==
    [k \in 1..((Len(leaves) + 1) \div 2) |->
        sha256_pair(leaves[2 * k - 1],
                    IF 2 * k <= Len(leaves) THEN leaves[2 * k] ELSE leaves[2 * k - 1])]

\* build_tree's while loop: levels appended to self.levels until one has one node
RECURSIVE build_levels(_, _)
build_levels(leaves, levels) ==
    IF Len(leaves) > 1
    THEN build_levels(next_level(leaves), Append(levels, next_level(leaves)))
    ELSE levels

\* build_tree: self.levels is appended to, never cleared
build_tree(m) ==
    IF m.transactions = <<>> THEN [m EXCEPT !.root = EmptyDigest]
    ELSE LET leaves == [i \in DOMAIN m.transactions |-> sha256_leaf(m.transactions[i])]
             levels == build_levels(leaves, Append(m.levels, leaves))
         IN [m EXCEPT !.levels = levels, !.root = levels[Len(levels)][1]]

\* MerkleTree(transactions)
MerkleTree(transactions) ==
    build_tree([transactions |-> transactions, root |-> EmptyDigest, levels |-> <<>>,
                call |-> "constructed", transaction |-> "", proof |-> <<>>,
                raised |-> "", verified |-> FALSE])

\* self.transactions.index(transaction), counted from 0
IndexOf(transactions, transaction) ==
    (CHOOSE i \in DOMAIN transactions :
        /\ transactions[i] = transaction
        /\ \A j \in 1..(i - 1) : transactions[j] # transaction) - 1

\* get_proof's loop over self.levels from level k on
RECURSIVE proof_from(_, _, _, _)
proof_from(levels, k, index, proof) ==
    IF k > Len(levels) \/ Len(levels[k]) = 1 THEN [raised |-> "", proof |-> proof]
    ELSE LET sibling_index == IF index % 2 = 0 THEN index + 1 ELSE index - 1
         IN IF sibling_index >= Len(levels[k])
            THEN [raised |-> "IndexError", proof |-> <<>>]
            ELSE proof_from(levels, k + 1, index \div 2,
                            Append(proof, levels[k][sibling_index + 1]))

\* get_proof: the proof returned, or the exception raised
get_proof(m, transaction) ==
    IF ~InSeq(m.transactions, transaction) THEN [raised |-> "", proof |-> <<>>]
    ELSE proof_from(m.levels, 1, IndexOf(m.transactions, transaction), <<>>)

\* verify_proof's loop: the current hash is always the left operand
RECURSIVE fold_proof(_, _)
fold_proof(current_hash, proof) ==
    IF proof = <<>> THEN current_hash
    ELSE fold_proof(sha256_pair(current_hash, Head(proof)), Tail(proof))

verify_proof(transaction, proof, root) ==
    IF proof = <<>> THEN FALSE
    ELSE fold_proof(sha256_leaf(transaction), proof) = root

MerkleConstructed ==
    /\ \E transactions \in LeafLists : merkle = MerkleTree(transactions)
    /\ FinIdle
    /\ ChainIdle
    /\ SMIdle
    /\ PipeIdle
    /\ ConsIdle
    /\ twin = <<>>
    /\ fork = <<>>
    /\ pos = <<>>
    /\ tasks = <<>>
    /\ mempool = <<>>

\* add_transaction(transaction)
AddTransaction(transaction) ==
    /\ Len(merkle.transactions) < MaxLeaves
    /\ merkle' = [build_tree([merkle EXCEPT !.transactions = Append(@, transaction)])
                    EXCEPT !.call = "add_transaction", !.transaction = transaction,
                           !.proof = <<>>, !.raised = "", !.verified = FALSE]
    /\ UNCHANGED <<twin, fork, pos, tasks, mempool, finVars, chainVars, smVars, pipeVars, consVars>>

\* list.remove: the list without the first occurrence of the transaction
RECURSIVE RemoveFirst(_, _)
RemoveFirst(list, transaction) ==
    IF list = <<>> THEN <<>>
    ELSE IF Head(list) = transaction THEN Tail(list)
    ELSE <<Head(list)>> \o RemoveFirst(Tail(list), transaction)

\* remove_transaction(transaction)
RemoveTransaction(transaction) ==
    /\ Len(merkle.levels) <= MaxLeaves
    /\ merkle' = [(IF InSeq(merkle.transactions, transaction)
                   THEN build_tree([merkle EXCEPT !.transactions =
                                                     RemoveFirst(@, transaction)])
                   ELSE merkle)
                    EXCEPT !.call = "remove_transaction", !.transaction = transaction,
                           !.proof = <<>>, !.raised = "", !.verified = FALSE]
    /\ UNCHANGED <<twin, fork, pos, tasks, mempool, finVars, chainVars, smVars, pipeVars, consVars>>

\* verify_proof(transaction, get_proof(transaction), get_root_hash())
GetAndVerifyProof(transaction) ==
    /\ InSeq(merkle.transactions, transaction)
    /\ \E r \in {get_proof(merkle, transaction)} :
          merkle' = [merkle EXCEPT !.call = "verify_proof",
                                   !.transaction = transaction,
                                   !.proof = r.proof,
                                   !.raised = r.raised,
                                   !.verified = IF r.raised # "" THEN FALSE
                                                ELSE verify_proof(transaction, r.proof,
                                                                  merkle.root)]
    /\ UNCHANGED <<twin, fork, pos, tasks, mempool, finVars, chainVars, smVars, pipeVars, consVars>>

NextMerkle ==
    \/ \E transaction \in LeafTxs : AddTransaction(transaction)
    \/ \E transaction \in LeafTxs : RemoveTransaction(transaction)
    \/ \E transaction \in LeafTxs : GetAndVerifyProof(transaction)

SpecMerkle == MerkleConstructed /\ [][NextMerkle]_vars

\* C25 as claimed: for a tree over a list of one or more transactions, get_proof
\* of a transaction of the list returns a proof that verify_proof accepts
\* against the root, and no tree over a different list has the same root.
C25_ProofsVerifyRootsDiffer ==
    /\ merkle.call = "verify_proof" => (merkle.raised = "" /\ merkle.verified)
    /\ \A transactions \in LeafLists :
          transactions # merkle.transactions =>
              MerkleTree(transactions).root # merkle.root

(***************************************************************************)
(* FinalityManager: the PBFT and LMD-GHOST gadgets, fork choice            *)
(***************************************************************************)

\* the manager constructed with finalityGadget = 'PBFT'
PBFTConstructed == FinConstructed /\ finality_gadget = "PBFT"

SpecPBFT == PBFTConstructed /\ [][NextFinality]_vars

\* C26 as claimed: under PBFT a step that moves finalized_checkpoint finalizes
\* the justified checkpoint itself, whose own votes are then at
\* floor(N * 0.67) + 1 or more (so with fewer it is not finalized); and the
\* record_vote step in which the votes of the justified checkpoint reach that
\* number finalizes it, whatever the other tallies are. The second part is
\* written in contrapositive form.
C26_PBFTFinalizesJustified ==
    [][(initialized /\ finality_gadget = "PBFT") =>
        LET need == ((Len(validators) * finality_threshold_pct) \div 100) + 1
            cast == \E in \in VoteInputs : record_vote(in[1], in[2])
            own == Cardinality(block_votes'[JustifiedHeight'])
        IN /\ FinalizedHeight' # FinalizedHeight =>
                 /\ finalized_checkpoint' = justified_checkpoint'
                 /\ cpHeap'[justified_checkpoint'].finalized
                 /\ own >= need
           /\ ( /\ own >= need
                /\ Cardinality(block_votes[JustifiedHeight']) < need
                /\ ~cpHeap'[justified_checkpoint'].finalized )
              => ~cast]_vars

\* the manager constructed with finalityGadget = 'LMD-GHOST'
LMDConstructed == FinConstructed /\ finality_gadget = "LMD-GHOST"

SpecLMD == LMDConstructed /\ [][NextFinality]_vars

\* C27 as claimed: under LMD-GHOST a record_vote step that leaves the justified
\* checkpoint more than one checkpoint interval above the finalized one, with
\* floor(N * 0.67) + 1 or more votes of its own, finalizes it. Written in
\* contrapositive form.
C27_LMDFinalizesAtThreshold ==
    [][(initialized /\ finality_gadget = "LMD-GHOST") =>
        LET need == ((Len(validators) * finality_threshold_pct) \div 100) + 1
            cast == \E in \in VoteInputs : record_vote(in[1], in[2])
            own == Cardinality(block_votes'[JustifiedHeight'])
        IN ( /\ JustifiedHeight' - FinalizedHeight > checkpoint_interval
             /\ own >= need
             /\ ~cpHeap'[justified_checkpoint'].finalized )
           => ~cast]_vars

\* ---- fork choice ----
\* options.get('forkChoiceAlgorithm', 'LMD-GHOST')
ForkChoiceAlgorithms == {"LMD-GHOST", "GHOST", "LongestChain"}

\* a block of a competing chain; the blocks create_checkpoint was called with
\* are the ones of branch "main"
ForkBlock(index, branch) ==
    [index |-> index, branch |-> branch, timestamp |-> index, difficulty |-> 1]

\* two competing chains: the one holding the checkpointed block of height 32,
\* and a longer one that forked off below it
MainChain ==
    [name |-> "main",
     blocks |-> <<ForkBlock(0, "main"), ForkBlock(checkpoint_interval, "main")>>]
SideChain ==
    [name |-> "side",
     blocks |-> <<ForkBlock(0, "main"), ForkBlock(checkpoint_interval, "side"),
                  ForkBlock(OffHeight, "side")>>]

\* apply_fork_choice returns None
NoChain == [name |-> "None", blocks |-> <<>>]

\* the lists of chains fork choice is called with
ChainLists == {<<>>, <<MainChain>>, <<MainChain, SideChain>>, <<SideChain, MainChain>>}

Last(q) == q[Len(q)]

RECURSIVE SumDifficulty(_)
SumDifficulty(blocks) ==
    IF blocks = <<>> THEN 0 ELSE Head(blocks).difficulty + SumDifficulty(Tail(blocks))

\* lmd_ghost_fork_choice's second loop: the chain with the most votes for its
\* latest block, the later latest block on a tie
RECURSIVE lmd_ghost_best(_, _, _)
lmd_ghost_best(chains, best_chain, votes) ==
    IF chains = <<>> THEN best_chain
    ELSE LET candidate == Head(chains)
             voteCount(c) == Cardinality(votes[Last(c.blocks).index])
         IN lmd_ghost_best(
               Tail(chains),
               IF best_chain = NoChain \/ voteCount(candidate) > voteCount(best_chain)
               THEN candidate
               ELSE IF /\ voteCount(candidate) = voteCount(best_chain)
                       /\ Last(candidate.blocks).timestamp > Last(best_chain.blocks).timestamp
                    THEN candidate
                    ELSE best_chain,
               votes)

lmd_ghost_fork_choice(chains, votes) == lmd_ghost_best(chains, NoChain, votes)

\* faulty variant: among chains of equal length the first one stays
RECURSIVE ghost_fork_choice_NoTie(_, _)
ghost_fork_choice_NoTie(chains, best_chain) ==
    IF chains = <<>> THEN best_chain
    ELSE ghost_fork_choice_NoTie(
            Tail(chains),
            IF best_chain = NoChain \/ Len(Head(chains).blocks) > Len(best_chain.blocks)
            THEN Head(chains)
            ELSE best_chain)

\* ghost_fork_choice: the chain with the most blocks, the greater difficulty sum
\* on a tie
RECURSIVE ghost_fork_choice(_, _)
ghost_fork_choice(chains, best_chain) ==
    IF chains = <<>> THEN best_chain
    ELSE LET candidate == Head(chains)
         IN ghost_fork_choice(
               Tail(chains),
               IF best_chain = NoChain \/ Len(candidate.blocks) > Len(best_chain.blocks)
               THEN candidate
               ELSE IF /\ Len(candidate.blocks) = Len(best_chain.blocks)
                       /\ SumDifficulty(candidate.blocks) > SumDifficulty(best_chain.blocks)
                    THEN candidate
                    ELSE best_chain)

RECURSIVE longest_chain_fork_choice(_, _)
longest_chain_fork_choice(chains, best_chain) ==
    IF chains = <<>> THEN best_chain
    ELSE longest_chain_fork_choice(
            Tail(chains),
            IF best_chain = NoChain \/ Len(Head(chains).blocks) > Len(best_chain.blocks)
            THEN Head(chains)
            ELSE best_chain)

\* apply_fork_choice: the votes are the only field of the manager that is read
apply_fork_choice(algorithm, chains, votes) ==
    IF chains = <<>> THEN NoChain
    ELSE IF algorithm = "LMD-GHOST" THEN lmd_ghost_fork_choice(chains, votes)
    ELSE IF algorithm = "GHOST" THEN ghost_fork_choice(chains, NoChain)
    ELSE IF algorithm = "LongestChain" THEN longest_chain_fork_choice(chains, NoChain)
    ELSE lmd_ghost_fork_choice(chains, votes)

\* FinalityManager({'finalityGadget': 'PBFT', 'validators': [v1],
\*                  'forkChoiceAlgorithm': ...})
ForkConstructed ==
    /\ initialized = FALSE
    /\ finality_gadget = "PBFT"
    /\ validators = <<"v1">>
    /\ cpHeap = <<>>
    /\ checkpoints = [bn \in CreateHeights |-> 0]
    /\ justified_checkpoint = 0
    /\ finalized_checkpoint = 0
    /\ voteKeys = {}
    /\ block_votes = [bn \in BlockNumbers |-> {}]
    /\ \E algorithm \in ForkChoiceAlgorithms :
          fork = [algorithm |-> algorithm, call |-> "none", selected |-> NoChain]
    /\ ChainIdle
    /\ SMIdle
    /\ PipeIdle
    /\ ConsIdle
    /\ twin = <<>>
    /\ merkle = <<>>
    /\ pos = <<>>
    /\ tasks = <<>>
    /\ mempool = <<>>

ApplyForkChoice(chains) ==
    /\ initialized
    /\ fork' = [fork EXCEPT !.call = "apply_fork_choice",
                            !.selected = apply_fork_choice(fork.algorithm, chains,
                                                           block_votes)]
    /\ UNCHANGED <<twin, merkle, pos, tasks, mempool, finVars, chainVars, smVars, pipeVars, consVars>>

\* handle_fork(fork_block, competing_chains): what apply_fork_choice selects
HandleFork(chains) ==
    /\ initialized
    /\ fork' = [fork EXCEPT !.call = "handle_fork",
                            !.selected = apply_fork_choice(fork.algorithm, chains,
                                                           block_votes)]
    /\ UNCHANGED <<twin, merkle, pos, tasks, mempool, finVars, chainVars, smVars, pipeVars, consVars>>

\* the manager's own steps, the fork-choice record left alone
ForkManagerStep ==
    /\ \/ Initialize
       \/ \E bn \in CreateHeights : create_checkpoint(bn)
       \/ \E in \in VoteInputs : record_vote(in[1], in[2])
    /\ fork' = fork

NextFork ==
    \/ ForkManagerStep
    \/ \E chains \in ChainLists : ApplyForkChoice(chains)
    \/ \E chains \in ChainLists : HandleFork(chains)

SpecFork == ForkConstructed /\ [][NextFork]_vars

\* the chain holds the block the finalized checkpoint was created for
HoldsFinalizedBlock(c) ==
    \E i \in DOMAIN c.blocks :
        /\ c.blocks[i].index = FinalizedHeight
        /\ c.blocks[i].branch = "main"

\* C28 as claimed: whenever one of the competing chains holds the block of the
\* finalized checkpoint, the chain apply_fork_choice or handle_fork selects
\* holds it too.
C28_ForkChoiceKeepsFinalized ==
    [][\A chains \in ChainLists :
          ( /\ ApplyForkChoice(chains) \/ HandleFork(chains)
            /\ \E i \in DOMAIN chains : HoldsFinalizedBlock(chains[i]) ) =>
              HoldsFinalizedBlock(fork'.selected)]_vars

\* ---- record_vote coroutines in flight ----
\* Two record_vote calls of different validators for one checkpoint run as
\* coroutines on one event loop. Each call is followed through its awaits:
\* process_votes, attempt_checkpoint_justification, attempt_finality. All of
\* them are coroutines that return without ever waiting for anything, and the
\* event loop takes control back only from a coroutine that waits.
TaskVoters == {"v1", "v2"}
TaskOrders == {<<"v1", "v2">>, <<"v2", "v1">>}

\* the voters of the votes recorded before the coroutines start
EarlierVoters == {"x", "v1"}

NoTasks == <<>>

\* the fields of the manager a record_vote call reads and writes
ManagerState ==
    [heap |-> cpHeap, just |-> justified_checkpoint, fin |-> finalized_checkpoint,
     votes |-> block_votes, keys |-> voteKeys]

\* record_vote up to its await: the vote stored under the validator's id
store_vote(votes, bn, vid) == [votes EXCEPT ![bn] = @ \cup {vid}]

\* one whole record_vote call on the manager state st
AtomicVote(st, bn, vid) ==
    LET keys == st.keys \cup {bn}
        votes == [st.votes EXCEPT ![bn] = @ \cup {vid}]
        s == process_votes(FinState(st.heap, st.just, st.fin), bn, keys, votes,
                           validators)
        r == Renumber(s.heap, checkpoints, s.just, s.fin)
    IN [heap |-> r.heap, just |-> r.just, fin |-> r.fin, votes |-> votes, keys |-> keys]

\* the calls of `order` made one after the other, each run to its end
RECURSIVE Sequential(_, _, _)
Sequential(st, bn, order) ==
    IF order = <<>> THEN st
    ELSE Sequential(AtomicVote(st, bn, Head(order)), bn, Tail(order))

\* faulty variant: every await hands control back to the event loop, which may
\* resume the other coroutine
may_resume_AtEveryAwait(t, vid) == t.pc[vid] # "done"

\* the event loop resumes a coroutine only while no other one is in the middle
\* of its call: none of the awaits of record_vote suspends
may_resume(t, vid) == t.pc[vid] # "done" /\ t.running \in {"none", vid}

\* the tasks once the coroutine of vid has moved on to position pc
Moved(t, vid, pc) ==
    [t EXCEPT !.pc[vid] = pc, !.running = IF pc = "done" THEN "none" ELSE vid]

notTaskVars == <<chainVars, smVars, pipeVars, consVars, twin, merkle, fork, pos, mempool>>

\* asyncio.gather(record_vote(Vote(bn, 'v1')), record_vote(Vote(bn, 'v2')))
Spawn(bn) ==
    /\ initialized
    /\ tasks = NoTasks
    /\ checkpoints[bn] # 0
    /\ tasks' = [bn |-> bn, start |-> ManagerState, running |-> "none",
                 pc |-> [vid \in TaskVoters |-> "record_vote"]]
    /\ UNCHANGED <<finVars, notTaskVars>>

\* record_vote: the vote is stored, process_votes is awaited
TaskStore(vid) ==
    /\ tasks # NoTasks
    /\ may_resume(tasks, vid)
    /\ tasks.pc[vid] = "record_vote"
    /\ voteKeys' = voteKeys \cup {tasks.bn}
    /\ block_votes' = store_vote(block_votes, tasks.bn, vid)
    /\ tasks' = Moved(tasks, vid, "process_votes")
    /\ UNCHANGED <<initialized, finality_gadget, validators, cpHeap, checkpoints,
                   justified_checkpoint, finalized_checkpoint, notTaskVars>>

\* process_votes up to its test of the justified checkpoint
TaskJustify(vid) ==
    /\ tasks # NoTasks
    /\ may_resume(tasks, vid)
    /\ tasks.pc[vid] = "process_votes"
    /\ LET s0 == FinState(cpHeap, justified_checkpoint, finalized_checkpoint)
           s == IF should_checkpoint(tasks.bn)
                THEN attempt_checkpoint_justification(s0, tasks.bn, block_votes,
                                                      validators)
                ELSE s0
           r == Renumber(s.heap, checkpoints, s.just, s.fin)
       IN /\ cpHeap' = r.heap
          /\ checkpoints' = r.cps
          /\ justified_checkpoint' = r.just
          /\ finalized_checkpoint' = r.fin
    /\ tasks' = Moved(tasks, vid, "justified_above_finalized")
    /\ UNCHANGED <<initialized, finality_gadget, validators, voteKeys, block_votes,
                   notTaskVars>>

\* process_votes: attempt_finality is awaited if the justified checkpoint lies
\* above the finalized one
TaskTest(vid) ==
    /\ tasks # NoTasks
    /\ may_resume(tasks, vid)
    /\ tasks.pc[vid] = "justified_above_finalized"
    /\ tasks' = Moved(tasks, vid,
                      IF justified_checkpoint # 0 /\ JustifiedHeight > FinalizedHeight
                      THEN "attempt_finality" ELSE "done")
    /\ UNCHANGED <<finVars, notTaskVars>>

TaskFinality(vid) ==
    /\ tasks # NoTasks
    /\ may_resume(tasks, vid)
    /\ tasks.pc[vid] = "attempt_finality"
    /\ LET s == attempt_finality(FinState(cpHeap, justified_checkpoint,
                                          finalized_checkpoint),
                                 voteKeys, block_votes, validators)
           r == Renumber(s.heap, checkpoints, s.just, s.fin)
       IN /\ cpHeap' = r.heap
          /\ checkpoints' = r.cps
          /\ justified_checkpoint' = r.just
          /\ finalized_checkpoint' = r.fin
    /\ tasks' = Moved(tasks, vid, "done")
    /\ UNCHANGED <<initialized, finality_gadget, validators, voteKeys, block_votes,
                   notTaskVars>>

\* what the manager goes through before the coroutines start: checkpoints are
\* created once per height, votes are recorded one call at a time
BeforeTasks ==
    /\ tasks = NoTasks
    /\ \/ Initialize
       \/ \E v \in ValidatorIds : add_validator(v)
       \/ \E bn \in CheckpointHeights : checkpoints[bn] = 0 /\ create_checkpoint(bn)
       \/ \E bn \in CheckpointHeights, vid \in EarlierVoters : record_vote(bn, vid)

NextVotes ==
    \/ BeforeTasks
    \/ \E bn \in CheckpointHeights : Spawn(bn)
    \/ \E vid \in TaskVoters : TaskStore(vid)
    \/ \E vid \in TaskVoters : TaskJustify(vid)
    \/ \E vid \in TaskVoters : TaskTest(vid)
    \/ \E vid \in TaskVoters : TaskFinality(vid)

SpecVotes == FinConstructed /\ [][NextVotes]_vars

TasksDone == tasks # NoTasks /\ \A vid \in TaskVoters : tasks.pc[vid] = "done"

\* C30: when both interleaved record_vote calls have returned, the votes
\* recorded before and both new votes are in the tally of the checkpoint, the
\* other tallies are as before, and the tallies, the checkpoints and the
\* justified and finalized checkpoint are those that the two calls made one
\* after the other, in one of the two orders, leave behind.
C30_InterleavedVotesSerializable ==
    TasksDone =>
        /\ block_votes[tasks.bn] = tasks.start.votes[tasks.bn] \cup TaskVoters
        /\ \A bn \in BlockNumbers \ {tasks.bn} : block_votes[bn] = tasks.start.votes[bn]
        /\ \E order \in TaskOrders :
              ManagerState = Sequential(tasks.start, tasks.bn, order)

\* both calls have returned, and the checkpoint, unjustified with one vote of
\* three validators' quorum when they started, is now justified and finalized
C30_Witness ==
    /\ TasksDone
    /\ Len(validators) = 3
    /\ finality_gadget = "PBFT"
    /\ Cardinality(tasks.start.votes[tasks.bn]) = 1
    /\ tasks.start.heap[checkpoints[tasks.bn]].justification = NoJustification
    /\ JustifiedAt(tasks.bn)
    /\ FinalizedAt(tasks.bn)

(***************************************************************************)
(* ProofOfStake: the validator pool, forge_block and validate_block        *)
(***************************************************************************)

\* ---- bounds ----
MaxForged == 1           \* forged blocks appended after the genesis block

\* the addresses validators are added with
PosAddresses == {"v1", "v2"}
\* the validator a block handed to validate_block names: an address of the
\* pool, or one that is never added
NamedValidators == PosAddresses \cup {"v3"}

\* reputation counts tenths: Validator.__init__ sets self.reputation = 1.0
InitialReputation == 10
\* self.decrease_reputation(0.5) of mark_inactive
InactivePenalty == 5
\* the stake a validator is added with
StakeOf(address) == IF address = "v1" THEN 1 ELSE 2

\* Validator(address, stake)
Validator(address, stake) ==
    [address |-> address, stake |-> stake, reputation |-> InitialReputation,
     status |-> "active"]

\* Validator.decrease_reputation
decrease_reputation(v, amount) ==
    [v EXCEPT !.reputation = IF @ - amount < 0 THEN 0 ELSE @ - amount]

\* Validator.mark_inactive
mark_inactive(v) == decrease_reputation([v EXCEPT !.status = "inactive"], InactivePenalty)

\* Validator.mark_active
mark_active(v) == [v EXCEPT !.status = "active"]

\* Validator.is_active
is_active(v) == v.status = "active"

\* Validator.get_effective_stake
get_effective_stake(v) == v.stake * v.reputation

\* the place of an address in the validators dict, 0 when it is not a key
PoolIndex(pool, address) ==
    IF \E i \in DOMAIN pool : pool[i].address = address
    THEN CHOOSE i \in DOMAIN pool : pool[i].address = address
    ELSE 0

\* ValidatorManager.add_validator: a new key goes last, a present key keeps
\* its place and gets the new object
pool_add_validator(pool, v) ==
    IF PoolIndex(pool, v.address) = 0
    THEN Append(pool, v)
    ELSE [pool EXCEPT ![PoolIndex(pool, v.address)] = v]

\* ValidatorManager.remove_validator
pool_remove_validator(pool, address) == SelectSeq(pool, LAMBDA v : v.address # address)

\* ValidatorManager.get_active_validators
get_active_validators(pool) == SelectSeq(pool, is_active)

RECURSIVE SumEffectiveStake(_)
SumEffectiveStake(vs) ==
    IF vs = <<>> THEN 0 ELSE get_effective_stake(Head(vs)) + SumEffectiveStake(Tail(vs))

\* the loop of select_validator: the first validator at which the running
\* sum has reached the draw, the first of all when none has
RECURSIVE select_loop(_, _, _, _)
select_loop(active_validators, i, current, random_value) ==
    IF i > Len(active_validators)
    THEN active_validators[1]
    ELSE IF random_value <= current + get_effective_stake(active_validators[i])
    THEN active_validators[i]
    ELSE select_loop(active_validators, i + 1,
                     current + get_effective_stake(active_validators[i]), random_value)

\* what random.uniform(0, total_effective_stake) can return
Draws(pool) == 0..SumEffectiveStake(get_active_validators(pool))

\* ValidatorManager.select_validator with the value random.uniform returned;
\* <<>> is None
select_validator(pool, random_value) ==
    IF get_active_validators(pool) = <<>>
    THEN <<>>
    ELSE select_loop(get_active_validators(pool), 1, 0, random_value)

\* Block(index, previous_hash, transactions, validator=validator)
PosBlock(block, validator) == block @@ [validator |-> validator]

\* ProofOfStake.forge_block; <<>> is None
forge_block(c, pool, reward, transactions, random_value) ==
    Bind(select_validator(pool, random_value), LAMBDA validator :
       IF validator = <<>>
       THEN <<>>
       ELSE LET previous_block == get_last_block(c)
            IN PosBlock(NewBlock(previous_block.index + 1, previous_block.hash,
                                 Append(transactions,
                                        RewardTx(validator.address, reward)), 0),
                        validator.address))

\* faulty variant: the status of the named validator is not looked at
pos_validate_block_AnyStatus(c, pool, reward, block) ==
    /\ PoolIndex(pool, block.validator) # 0
    /\ is_valid_block(c, block)
    /\ LET staking_rewards == SelectSeq(block.transactions, LAMBDA tx : tx.sender = "0")
       IN /\ Len(staking_rewards) = 1
          /\ staking_rewards[1].amount = reward

\* ProofOfStake.validate_block
pos_validate_block(c, pool, reward, block) ==
    /\ PoolIndex(pool, block.validator) # 0
    /\ is_active(pool[PoolIndex(pool, block.validator)])
    /\ is_valid_block(c, block)
    /\ LET staking_rewards == SelectSeq(block.transactions, LAMBDA tx : tx.sender = "0")
       IN /\ Len(staking_rewards) = 1
          /\ staking_rewards[1].amount = reward

\* the transaction lists of the blocks handed to validate_block: no reward,
\* one reward, one reward after a transfer, two rewards, a reward of another
\* amount
StakedLists(validator, reward) ==
    {<<>>, <<UserTx>>,
     <<RewardTx(validator, reward)>>,
     <<UserTx, RewardTx(validator, reward)>>,
     <<RewardTx(validator, reward), RewardTx(validator, reward)>>,
     <<RewardTx(validator, reward + 1)>>}

\* the blocks handed to validate_block: the block forge_block returned last,
\* for the tip of the chain every named validator and transaction list, and
\* the rewarded block of every named validator with a stale stored hash
PosCandidates(c, p) ==
    LET last == get_last_block(c)
    IN { PosBlock(NewBlock(last.index + 1, last.hash, t, 0), v) :
           v \in NamedValidators, t \in StakedLists("v1", p.reward) }
       \cup { PosBlock(BlockRec(last.index + 1, last.hash, <<RewardTx(v, p.reward)>>, 0,
                                StaleHash(last.index + 1, last.hash,
                                          <<RewardTx(v, p.reward)>>, 0)), v) :
                v \in NamedValidators }
       \cup (IF p.result = "block" THEN {p.block} ELSE {})

\* ProofOfStake(Blockchain(), ValidatorManager())
PosConstructed ==
    /\ chain = <<create_genesis_block>>
    /\ block_hash_map = HashMapPut(<<>>, create_genesis_block)
    /\ addResult = "none"
    /\ chainValid = "none"
    /\ pos = [call |-> "constructed", validators |-> <<>>, reward |-> DefaultReward,
              block |-> <<>>, result |-> "none"]
    /\ FinIdle
    /\ SMIdle
    /\ PipeIdle
    /\ ConsIdle
    /\ twin = <<>>
    /\ merkle = <<>>
    /\ fork = <<>>
    /\ tasks = <<>>
    /\ mempool = <<>>

notPosVars == <<finVars, chainVars, smVars, pipeVars, consVars, twin, merkle, fork, tasks, mempool>>

\* validator_manager.add_validator(Validator(address, stake))
AddValidator(address) ==
    /\ pos' = [pos EXCEPT !.validators = pool_add_validator(@, Validator(address, StakeOf(address)))]
    /\ UNCHANGED notPosVars

\* validator_manager.remove_validator(address)
RemoveValidator(address) ==
    /\ PoolIndex(pos.validators, address) # 0
    /\ pos' = [pos EXCEPT !.validators = pool_remove_validator(@, address)]
    /\ UNCHANGED notPosVars

\* get_validator(address).mark_inactive()
MarkInactive(address) ==
    /\ PoolIndex(pos.validators, address) # 0
    /\ pos' = [pos EXCEPT !.validators[PoolIndex(pos.validators, address)] = mark_inactive(@)]
    /\ UNCHANGED notPosVars

\* get_validator(address).mark_active()
MarkActive(address) ==
    /\ PoolIndex(pos.validators, address) # 0
    /\ pos' = [pos EXCEPT !.validators[PoolIndex(pos.validators, address)] = mark_active(@)]
    /\ UNCHANGED notPosVars

ForgeBlock(transactions, random_value) ==
    \E block \in {forge_block(chain, pos.validators, pos.reward, transactions, random_value)} :
       /\ pos' = [pos EXCEPT !.call = "forge_block", !.block = block,
                             !.result = IF block = <<>> THEN "None" ELSE "block"]
       /\ UNCHANGED notPosVars

PosValidateBlock(block) ==
    /\ pos' = [pos EXCEPT !.call = "validate_block", !.block = block,
                          !.result = IF pos_validate_block(chain, pos.validators,
                                                           pos.reward, block)
                                     THEN "True" ELSE "False"]
    /\ UNCHANGED notPosVars

\* blockchain.add_block(block) with the block forge_block returned
AddForged ==
    /\ pos.call = "forge_block"
    /\ pos.result = "block"
    /\ Len(chain) <= MaxForged
    /\ add_block(pos.block)

NextPos ==
    \/ \E address \in PosAddresses : AddValidator(address)
    \/ \E address \in PosAddresses : RemoveValidator(address)
    \/ \E address \in PosAddresses : MarkInactive(address)
    \/ \E address \in PosAddresses : MarkActive(address)
    \/ \E transactions \in MineInputs, random_value \in Draws(pos.validators) :
          ForgeBlock(transactions, random_value)
    \/ \E block \in PosCandidates(chain, pos) : PosValidateBlock(block)
    \/ AddForged

SpecPos == PosConstructed /\ [][NextPos]_vars

\* the validator the block names is not a key of the pool
Unregistered(pool, block) == PoolIndex(pool, block.validator) = 0

\* the validator the block names is in the pool with a status other than active
Inactive(pool, block) ==
    /\ PoolIndex(pool, block.validator) # 0
    /\ ~is_active(pool[PoolIndex(pool, block.validator)])

\* C29: validate_block returns False for every block whose named validator is
\* not in the pool or is not active when validate_block is called, and for
\* every block that does not hold exactly one reward transaction of the
\* configured reward amount.
C29_PosRejectsUnstakedOrMisrewarded ==
    [][\/ pos'.call # "validate_block"
       \/ pos'.result = "False"
       \/ \A block \in PosCandidates(chain, pos) :
             (\/ Unregistered(pos.validators, block)
              \/ Inactive(pos.validators, block)
              \/ Len(RewardsOf(block)) # 1
              \/ RewardsOf(block)[1].amount # pos.reward)
                => ~PosValidateBlock(block)]_vars

\* validate_block has returned False for a block forged by a validator that
\* was marked inactive afterwards: the block links to the tip, its hash is
\* fresh and it holds the one reward of the configured amount
C29_Witness ==
    /\ pos.call = "validate_block"
    /\ pos.result = "False"
    /\ Inactive(pos.validators, pos.block)
    /\ is_valid_block(chain, pos.block)
    /\ Len(RewardsOf(pos.block)) = 1
    /\ RewardsOf(pos.block)[1].amount = pos.reward
    /\ pos.block.transactions[Len(pos.block.transactions)].receiver = pos.block.validator
    /\ Len(chain) > 1

(***************************************************************************)
(* ProofOfWork: the search of mine_block next to another thread            *)
(***************************************************************************)

\* Block(..., difficulty=self.difficulty): the difficulty the search began with
SearchBlock(block, difficulty) == block @@ [difficulty |-> difficulty]

\* the blocks another miner's thread appends: sealed for the tip of the chain
CompetingBlocks(c) ==
    { NewBlock(get_last_block(c).index + 1, get_last_block(c).hash,
               <<RewardTx("other", DefaultReward)>>, n) : n \in Nonces }

\* ProofOfWork(Blockchain(), difficulty), no mine_block call under way
SearchConstructed ==
    /\ chain = <<create_genesis_block>>
    /\ block_hash_map = HashMapPut(<<>>, create_genesis_block)
    /\ addResult = "none"
    /\ chainValid = "none"
    /\ production = NoProduction
    /\ \E difficulty \in Difficulties :
          pow = [call |-> "constructed", difficulty |-> difficulty,
                 reward |-> DefaultReward,
                 block |-> SearchBlock(create_genesis_block, difficulty),
                 pc |-> "idle"]
    /\ FinIdle
    /\ SMIdle
    /\ PipeIdle
    /\ AuxIdle

\* mine_block up to the mining loop: the block is built on the tip of the
\* chain as it is now, with the difficulty as it is now
StartSearch(transactions) ==
    /\ pow.pc = "idle"
    /\ pow' = [pow EXCEPT !.call = "mine_block", !.pc = "searching",
                          !.block = SearchBlock(
                              NewBlock(get_last_block(chain).index + 1,
                                       get_last_block(chain).hash,
                                       Append(transactions, RewardTx("miner", pow.reward)),
                                       0),
                              pow.difficulty)]
    /\ UNCHANGED <<chainVars, production, notConsVars>>

\* one pass of the mining loop: the hash is compared with self.difficulty as
\* it is now; nothing else of the object or of the chain is read
SearchStep ==
    /\ pow.pc = "searching"
    /\ \E block_hash \in {calculate_hash(pow.block)} :
          IF startswith_zeros(block_hash, pow.difficulty)
          THEN pow' = [pow EXCEPT !.block.hash = block_hash, !.pc = "returned"]
          ELSE /\ pow.block.nonce + 1 \in Nonces
               /\ pow' = [pow EXCEPT !.block.nonce = @ + 1]
    /\ UNCHANGED <<chainVars, production, notConsVars>>

\* another thread: blockchain.add_block(block) with a competing block
CompetingBlock(b) ==
    /\ pow.pc \in {"idle", "searching"}
    /\ Len(chain) <= MaxForged
    /\ add_block(b)

\* another thread: adjust_difficulty has moved self.difficulty by one
DifficultyChange(difficulty) ==
    /\ difficulty \in {pow.difficulty - 1, pow.difficulty + 1}
    /\ pow' = [pow EXCEPT !.difficulty = difficulty]
    /\ UNCHANGED <<chainVars, production, notConsVars>>

\* blockchain.add_block(block) with the block mine_block returned
AddSearched ==
    /\ pow.pc = "returned"
    /\ Len(chain) <= MaxForged + 1
    /\ IF is_valid_block(chain, pow.block)
       THEN /\ chain' = Append(chain, pow.block)
            /\ block_hash_map' = HashMapPut(block_hash_map, pow.block)
            /\ addResult' = "appended"
       ELSE /\ addResult' = "ValueError"
            /\ UNCHANGED <<chain, block_hash_map>>
    /\ pow' = [pow EXCEPT !.pc = "idle"]
    /\ UNCHANGED <<chainValid, production, notConsVars>>

NextSearch ==
    \/ \E transactions \in MineInputs : StartSearch(transactions)
    \/ SearchStep
    \/ \E b \in CompetingBlocks(chain) : CompetingBlock(b)
    \/ \E difficulty \in Difficulties : DifficultyChange(difficulty)
    \/ AddSearched

SpecSearch == SearchConstructed /\ [][NextSearch]_vars

\* the search under way was begun on another tip or at another difficulty
Overtaken ==
    \/ pow.block.previous_hash # get_last_block(chain).hash
    \/ pow.block.difficulty # pow.difficulty

\* C31: a pass of the mining loop made after a competing block was appended
\* to the chain, or after the difficulty changed, ends the search: it neither
\* goes on to the next nonce nor returns a block.
C31_SearchStopsWhenOvertaken ==
    [][(Overtaken /\ SearchStep) => pow'.pc \notin {"searching", "returned"}]_vars

(***************************************************************************)
(* ProofOfStake: rewards, slashing and the validators' stake, reputation   *)
(***************************************************************************)

\* ---- bounds ----
MaxStake == 3            \* largest stake update_validator_rewards leads to

\* ---- program constants, reputation in tenths ----
MaxReputation == 50      \* min(5.0, ...)
ProducedPraise == 1      \* self.increase_reputation(0.1) of produce_block
PunishPenalty == 5       \* validator.decrease_reputation(0.5) of punish_validator

\* faulty variant: the new stake is not clamped
update_stake_NoClamp(v, amount) == [v EXCEPT !.stake = @ + amount]

\* Validator.update_stake
update_stake(v, amount) ==
    [v EXCEPT !.stake = IF @ + amount < 0 THEN 0 ELSE @ + amount]

\* Validator.increase_reputation
increase_reputation(v, amount) ==
    [v EXCEPT !.reputation = IF @ + amount > MaxReputation THEN MaxReputation
                             ELSE @ + amount]

\* Validator.produce_block, the counter blocks_produced left out
validator_produce_block(v) == increase_reputation(v, ProducedPraise)

\* ProofOfStake.update_validator_rewards
update_validator_rewards(v, reward) == validator_produce_block(update_stake(v, reward))

\* ProofOfStake.punish_validator
punish_validator(v, amount) ==
    Bind(decrease_reputation(update_stake(v, -amount), PunishPenalty), LAMBDA slashed :
       IF slashed.stake <= 0 THEN mark_inactive(slashed) ELSE slashed)

\* the validator whose stake and reputation the calls change; the other one
\* of the pool is marked active and inactive only
StakeTargets == {"v1"}
\* the amounts handed to update_stake and punish_validator
StakeAmounts == {-2, -1, 1, 2}
\* the amounts handed to increase_reputation and decrease_reputation: 0.1, 4.5
ReputationAmounts == {1, 45}

\* ProofOfStake(Blockchain(), validator_manager, reward=1) with two validators
StakeConstructed ==
    /\ \E reward \in {1} :
          pos = [call |-> "constructed",
                 validators |-> <<Validator("v1", StakeOf("v1")),
                                  Validator("v2", StakeOf("v2"))>>,
                 reward |-> reward, block |-> <<>>, result |-> "none"]
    /\ ChainIdle
    /\ FinIdle
    /\ SMIdle
    /\ PipeIdle
    /\ ConsIdle
    /\ twin = <<>>
    /\ merkle = <<>>
    /\ fork = <<>>
    /\ tasks = <<>>
    /\ mempool = <<>>

\* a call that changes one validator object and returns nothing
OnValidator(call, address, v) ==
    /\ pos' = [pos EXCEPT !.call = call, !.result = address,
                          !.validators[PoolIndex(pos.validators, address)] = v]
    /\ UNCHANGED notPosVars

ValidatorOf(address) == pos.validators[PoolIndex(pos.validators, address)]

UpdateValidatorRewards(address) ==
    /\ ValidatorOf(address).stake + pos.reward <= MaxStake
    /\ OnValidator("update_validator_rewards", address,
                   update_validator_rewards(ValidatorOf(address), pos.reward))

PunishValidator(address, amount) ==
    OnValidator("punish_validator", address, punish_validator(ValidatorOf(address), amount))

UpdateStake(address, amount) ==
    /\ ValidatorOf(address).stake + amount <= MaxStake
    /\ OnValidator("update_stake", address, update_stake(ValidatorOf(address), amount))

IncreaseReputation(address, amount) ==
    OnValidator("increase_reputation", address,
                increase_reputation(ValidatorOf(address), amount))

DecreaseReputation(address, amount) ==
    OnValidator("decrease_reputation", address,
                decrease_reputation(ValidatorOf(address), amount))

StakeMarkInactive(address) ==
    OnValidator("mark_inactive", address, mark_inactive(ValidatorOf(address)))

StakeMarkActive(address) ==
    OnValidator("mark_active", address, mark_active(ValidatorOf(address)))

\* validator_manager.select_validator() with the value random.uniform returned
SelectValidator(random_value) ==
    \E selected \in {select_validator(pos.validators, random_value)} :
       /\ pos' = [pos EXCEPT !.call = "select_validator",
                             !.result = IF selected = <<>> THEN "None"
                                        ELSE selected.address]
       /\ UNCHANGED notPosVars

NextStake ==
    \/ \E address \in StakeTargets : UpdateValidatorRewards(address)
    \/ \E address \in StakeTargets, amount \in {1, 2} : PunishValidator(address, amount)
    \/ \E address \in StakeTargets, amount \in StakeAmounts : UpdateStake(address, amount)
    \/ \E address \in StakeTargets, amount \in ReputationAmounts :
          IncreaseReputation(address, amount)
    \/ \E address \in StakeTargets, amount \in ReputationAmounts :
          DecreaseReputation(address, amount)
    \/ \E address \in PosAddresses : StakeMarkInactive(address)
    \/ \E address \in PosAddresses : StakeMarkActive(address)
    \/ \E random_value \in Draws(pos.validators) : SelectValidator(random_value)

SpecStake == StakeConstructed /\ [][NextStake]_vars

BlockGaps == {1, 3, 9}
\* blocks_per_adjustment as handed in
Windows == {2, 3}
\* target_time as handed in
TargetTimes == {4}

\* a Block with the timestamp Block.__init__ stored
TimedBlock(block, timestamp) == block @@ [timestamp |-> timestamp]

\* total_time of adjust_difficulty: the loop over range(start_block, len - 1)
RECURSIVE total_time(_, _)
total_time(c, i) ==
    IF i > Len(c) - 1 THEN 0
    ELSE (c[i + 1].timestamp - c[i].timestamp) + total_time(c, i + 1)

\* ProofOfWork.adjust_difficulty: the difficulty afterwards. average_time is
\* total_time / blocks_per_adjustment, compared here without the division
adjust_difficulty(c, difficulty, blocks_per_adjustment, target_time) ==
    IF Len(c) < blocks_per_adjustment THEN difficulty
    ELSE Bind(total_time(c, Len(c) - blocks_per_adjustment + 1), LAMBDA total :
            IF 2 * total < target_time * blocks_per_adjustment
            THEN difficulty + 1
            ELSE IF total > 2 * target_time * blocks_per_adjustment
            THEN (IF difficulty - 1 < 1 THEN 1 ELSE difficulty - 1)
            ELSE difficulty)

\* ProofOfWork(Blockchain(), difficulty)
RetargetConstructed ==
    /\ chain = <<TimedBlock(create_genesis_block, 0)>>
    /\ block_hash_map = HashMapPut(<<>>, TimedBlock(create_genesis_block, 0))
    /\ addResult = "none"
    /\ chainValid = "none"
    /\ production = NoProduction
    /\ \E difficulty \in Difficulties :
          pow = [call |-> "constructed", difficulty |-> difficulty,
                 reward |-> DefaultReward, before |-> difficulty]
    /\ FinIdle
    /\ SMIdle
    /\ PipeIdle
    /\ AuxIdle

\* a block mined and appended `gap` seconds after the last one
AppendTimed(gap) ==
    add_block(TimedBlock(NewBlock(get_last_block(chain).index + 1,
                                  get_last_block(chain).hash, <<>>, 0),
                         get_last_block(chain).timestamp + gap))

AdjustDifficulty(blocks_per_adjustment, target_time) ==
    /\ pow.difficulty <= MaxDifficulty
    /\ pow' = [pow EXCEPT !.call = "adjust_difficulty", !.before = pow.difficulty,
                          !.difficulty = adjust_difficulty(chain, pow.difficulty,
                                                           blocks_per_adjustment,
                                                           target_time)]
    /\ UNCHANGED <<chainVars, production, notConsVars>>

NextRetarget ==
    \/ \E gap \in BlockGaps : AppendTimed(gap)
    \/ \E blocks_per_adjustment \in Windows, target_time \in TargetTimes :
          AdjustDifficulty(blocks_per_adjustment, target_time)

SpecRetarget == RetargetConstructed /\ [][NextRetarget]_vars

\* the sum of the times between the last `window` blocks of the chain; there
\* are window - 1 of them
WindowTime(c, window) == c[Len(c)].timestamp - c[Len(c) - window + 1].timestamp

\* C33: with at least `window` blocks in the chain, adjust_difficulty raises
\* the difficulty by 1 when the mean time between the last `window` blocks is
\* below half the target, lowers it by 1 but never below 1 when that mean is
\* above twice the target, and leaves it unchanged otherwise; with fewer
\* blocks it leaves the difficulty unchanged.
C33_RetargetByMeanBlockTime ==
    [][\A window \in Windows, target_time \in TargetTimes :
          AdjustDifficulty(window, target_time) =>
             IF Len(chain) < window
             THEN pow'.difficulty = pow.difficulty
             ELSE IF 2 * WindowTime(chain, window) < target_time * (window - 1)
             THEN pow'.difficulty = pow.difficulty + 1
             ELSE IF WindowTime(chain, window) > 2 * target_time * (window - 1)
             THEN pow'.difficulty = (IF pow.difficulty - 1 < 1 THEN 1
                                     ELSE pow.difficulty - 1)
             ELSE pow'.difficulty = pow.difficulty]_vars

\* the first of the validators, in order, whose cumulative effective stake
\* exceeds the draw; <<>> when there is none
RECURSIVE FirstExceeding(_, _, _, _)
FirstExceeding(vs, i, current, r) ==
    IF i > Len(vs) THEN <<>>
    ELSE IF current + get_effective_stake(vs[i]) > r THEN vs[i]
    ELSE FirstExceeding(vs, i + 1, current + get_effective_stake(vs[i]), r)

\* C34: select_validator returns None exactly when no validator is active;
\* otherwise, for a draw below the total effective stake, it returns the
\* first active validator, in registry order, whose cumulative effective
\* stake exceeds the draw, and it never returns a validator whose effective
\* stake is zero.
C34_SelectionFollowsStake ==
    [][\/ pos'.call # "select_validator"
       \/ \A r \in Draws(pos.validators) :
             SelectValidator(r) =>
                /\ (pos'.result = "None") <=> (get_active_validators(pos.validators) = <<>>)
                /\ pos'.result # "None" =>
                      /\ get_effective_stake(ValidatorOf(pos'.result)) > 0
                      /\ r < SumEffectiveStake(get_active_validators(pos.validators)) =>
                            pos'.result =
                               FirstExceeding(get_active_validators(pos.validators),
                                              1, 0, r).address]_vars

(***************************************************************************)
(* BlockProducer.select_transactions: validity, order and the two caps     *)
(***************************************************************************)

\* transactions as select_transactions reads them: validate()['isValid'],
\* gas_price, gas_limit, timestamp and the size of str(to_dict())
PendingTxs ==
    {[id |-> 1, valid |-> TRUE,  gas_price |-> 1, gas_limit |-> 2, timestamp |-> 1, size |-> 1],
     [id |-> 2, valid |-> TRUE,  gas_price |-> 2, gas_limit |-> 1, timestamp |-> 2, size |-> 2],
     [id |-> 3, valid |-> FALSE, gas_price |-> 3, gas_limit |-> 3, timestamp |-> 3, size |-> 1],
     [id |-> 4, valid |-> TRUE,  gas_price |-> 3, gas_limit |-> 1, timestamp |-> 0, size |-> 2]}

\* what the mempool returns: up to MaxBlockTxs different transactions
MempoolLists ==
    { l \in UNION { [1..n -> PendingTxs] : n \in 0..MaxBlockTxs } :
         \A i, j \in DOMAIN l : i # j => l[i] # l[j] }

\* the ProductionOptions select_transactions reads
SelectOptions ==
    [max_block_size : {2, 3, 5}, max_transactions_per_block : {1, 2, 3},
     prioritize_high_fee : BOOLEAN]

\* key=lambda tx: (tx.gas_price * tx.gas_limit, -tx.timestamp), compared as
\* tuples: a's key is greater than b's
KeyGreater(a, b) ==
    \/ a.gas_price * a.gas_limit > b.gas_price * b.gas_limit
    \/ /\ a.gas_price * a.gas_limit = b.gas_price * b.gas_limit
       /\ -a.timestamp > -b.timestamp

\* list.sort(key=..., reverse=True): descending, equal keys in their old order
RECURSIVE sort_reverse(_)
sort_reverse(l) ==
    IF l = <<>> THEN <<>>
    ELSE LET rest == sort_reverse(Tail(l))
             ahead == SelectSeq(rest, LAMBDA tx : KeyGreater(tx, Head(l)))
             behind == SelectSeq(rest, LAMBDA tx : ~KeyGreater(tx, Head(l)))
         IN ahead \o <<Head(l)>> \o behind

\* faulty variant: a transaction that does not fit is skipped and the loop
\* goes on with the next one
RECURSIVE apply_block_limits_Skip(_, _, _, _)
apply_block_limits_Skip(valid_transactions, selected_transactions, total_size, options) ==
    IF valid_transactions = <<>> THEN selected_transactions
    ELSE IF \/ Len(selected_transactions) >= options.max_transactions_per_block
            \/ total_size + Head(valid_transactions).size > options.max_block_size
    THEN apply_block_limits_Skip(Tail(valid_transactions), selected_transactions,
                                 total_size, options)
    ELSE apply_block_limits_Skip(Tail(valid_transactions),
                                 Append(selected_transactions, Head(valid_transactions)),
                                 total_size + Head(valid_transactions).size, options)

\* the loop that applies the block limits
RECURSIVE apply_block_limits(_, _, _, _)
apply_block_limits(valid_transactions, selected_transactions, total_size, options) ==
    IF valid_transactions = <<>> THEN selected_transactions
    ELSE IF \/ Len(selected_transactions) >= options.max_transactions_per_block
            \/ total_size + Head(valid_transactions).size > options.max_block_size
    THEN selected_transactions
    ELSE apply_block_limits(Tail(valid_transactions),
                            Append(selected_transactions, Head(valid_transactions)),
                            total_size + Head(valid_transactions).size, options)

\* select_transactions with a mempool whose methods are coroutines
select_with_options(transactions, options) ==
    Bind(SelectSeq(transactions, LAMBDA tx : tx.valid), LAMBDA valid_transactions :
       apply_block_limits(IF options.prioritize_high_fee
                          THEN sort_reverse(valid_transactions)
                          ELSE valid_transactions,
                          <<>>, 0, options))

\* BlockProducer({'mempool': ...}), no call made yet
SelectConstructed ==
    /\ production = [call |-> "none", pending |-> <<>>,
                     options |-> [max_block_size |-> 5, max_transactions_per_block |-> 3,
                                  prioritize_high_fee |-> TRUE],
                     selected |-> <<>>]
    /\ pow = NoPow
    /\ ChainIdle
    /\ FinIdle
    /\ SMIdle
    /\ PipeIdle
    /\ AuxIdle

SelectTransactions(transactions, options) ==
    /\ production' = [call |-> "select_transactions", pending |-> transactions,
                      options |-> options,
                      selected |-> select_with_options(transactions, options)]
    /\ UNCHANGED <<pow, chainVars, notConsVars>>

NextSelect ==
    \E transactions \in MempoolLists, options \in SelectOptions :
       SelectTransactions(transactions, options)

SpecSelect == SelectConstructed /\ [][NextSelect]_vars

RECURSIVE SumSize(_)
SumSize(l) == IF l = <<>> THEN 0 ELSE Head(l).size + SumSize(Tail(l))

InList(l, tx) == \E i \in DOMAIN l : l[i] = tx

\* tx comes before other in the order the selection is made in: by key when
\* prioritized (equal keys do not occur in one list), else by place in the pool
Before(p, tx, other) ==
    IF p.options.prioritize_high_fee
    THEN KeyGreater(tx, other)
    ELSE \E i, j \in DOMAIN p.pending :
            i < j /\ p.pending[i] = tx /\ p.pending[j] = other

\* the valid transactions of the pool that were not selected
LeftOut(p) ==
    { tx \in PendingTxs : tx.valid /\ InList(p.pending, tx) /\ ~InList(p.selected, tx) }

\* C35: what select_transactions returns are valid transactions of the
\* mempool, each once, at most max_transactions_per_block of them with a total
\* size of at most max_block_size; when prioritize_high_fee is set they are in
\* descending order of gas_price x gas_limit, equal products in ascending
\* order of timestamp; and they are the greedy prefix: every transaction left
\* out comes after every selected one, and the first one left out did not
\* fit under one of the two caps.
C35_SelectionIsGreedyPrefix ==
    production.call = "select_transactions" =>
       LET p == production
           selected == p.selected
       IN /\ \A i \in DOMAIN selected :
                selected[i].valid /\ InList(p.pending, selected[i])
          /\ \A i, j \in DOMAIN selected : i # j => selected[i] # selected[j]
          /\ Len(selected) <= p.options.max_transactions_per_block
          /\ SumSize(selected) <= p.options.max_block_size
          /\ \A i, j \in DOMAIN selected : i < j => Before(p, selected[i], selected[j])
          /\ \A tx \in LeftOut(p) :
                /\ \A i \in DOMAIN selected : Before(p, selected[i], tx)
                /\ (\A other \in LeftOut(p) \ {tx} : Before(p, tx, other))
                      => \/ Len(selected) >= p.options.max_transactions_per_block
                         \/ SumSize(selected) + tx.size > p.options.max_block_size

\* a prioritized selection out of three valid transactions in another order:
\* the two of the highest keys were taken, the tie went to the earlier one,
\* and the third did not fit under the size cap
C35_Witness ==
    /\ production.call = "select_transactions"
    /\ production.options.prioritize_high_fee
    /\ Len(production.pending) = 3
    /\ production.pending[1].id = 2
    /\ Len(production.selected) = 2
    /\ production.selected[1].id = 4
    /\ production.selected[2].id = 1
    /\ Cardinality(LeftOut(production)) = 1
    /\ production.options.max_transactions_per_block = 3

(***************************************************************************)
(* FinalityManager.apply_fork_choice: the chain each rule selects          *)
(***************************************************************************)

\* a block of a competing chain with its own timestamp and difficulty
ChoiceBlock(index, branch, timestamp, difficulty) ==
    [index |-> index, branch |-> branch, timestamp |-> timestamp,
     difficulty |-> difficulty]

\* competing chains: two that end at the same height, the second with the
\* later and heavier tip, and two that are one block longer
ChoiceChains ==
    {[name |-> "a", blocks |-> <<ForkBlock(0, "main"),
                                 ChoiceBlock(checkpoint_interval, "a", 1, 1)>>],
     [name |-> "b", blocks |-> <<ForkBlock(0, "main"),
                                 ChoiceBlock(checkpoint_interval, "b", 2, 2)>>],
     [name |-> "c", blocks |-> <<ForkBlock(0, "main"),
                                 ChoiceBlock(checkpoint_interval, "a", 1, 1),
                                 ChoiceBlock(OffHeight, "c", 4, 1)>>],
     [name |-> "d", blocks |-> <<ForkBlock(0, "main"),
                                 ChoiceBlock(checkpoint_interval, "b", 2, 2),
                                 ChoiceBlock(OffHeight, "d", 3, 2)>>]}

\* the lists of chains apply_fork_choice is called with
ChoiceLists ==
    { l \in UNION { [1..n -> ChoiceChains] : n \in 0..3 } :
         \A i, j \in DOMAIN l : i # j => l[i] # l[j] }

\* the votes cast for the two tip heights
TipVoteInputs == { in \in VoteInputs : in[1] \in {checkpoint_interval, OffHeight} }

\* FinalityManager({'validators': [v1], 'forkChoiceAlgorithm': ...})
ChoiceConstructed ==
    /\ initialized = FALSE
    /\ finality_gadget = "PBFT"
    /\ validators = <<"v1">>
    /\ cpHeap = <<>>
    /\ checkpoints = [bn \in CreateHeights |-> 0]
    /\ justified_checkpoint = 0
    /\ finalized_checkpoint = 0
    /\ voteKeys = {}
    /\ block_votes = [bn \in BlockNumbers |-> {}]
    /\ \E algorithm \in ForkChoiceAlgorithms :
          fork = [algorithm |-> algorithm, call |-> "none", selected |-> NoChain,
                  chains |-> <<>>, votes |-> block_votes]
    /\ ChainIdle
    /\ SMIdle
    /\ PipeIdle
    /\ ConsIdle
    /\ twin = <<>>
    /\ merkle = <<>>
    /\ pos = <<>>
    /\ tasks = <<>>
    /\ mempool = <<>>

\* apply_fork_choice(chains), the argument and the votes it read kept next to
\* what was returned
ChooseChain(chains) ==
    /\ fork' = [fork EXCEPT !.call = "apply_fork_choice", !.chains = chains,
                            !.votes = block_votes,
                            !.selected = apply_fork_choice(fork.algorithm, chains,
                                                           block_votes)]
    /\ UNCHANGED <<twin, merkle, pos, tasks, mempool, finVars, chainVars, smVars, pipeVars, consVars>>

NextChoice ==
    \/ Initialize
    \/ \E in \in TipVoteInputs : record_vote(in[1], in[2])
    \/ \E chains \in ChoiceLists : ChooseChain(chains)

SpecChoice == ChoiceConstructed /\ [][NextChoice]_vars

TipVoteCount(c) == Cardinality(fork.votes[Last(c.blocks).index])

\* chain c ranks above chain best under the rule
RanksAbove(algorithm, c, best) ==
    IF algorithm = "LMD-GHOST"
    THEN \/ TipVoteCount(c) > TipVoteCount(best)
         \/ /\ TipVoteCount(c) = TipVoteCount(best)
            /\ Last(c.blocks).timestamp > Last(best.blocks).timestamp
    ELSE IF algorithm = "GHOST"
    THEN \/ Len(c.blocks) > Len(best.blocks)
         \/ /\ Len(c.blocks) = Len(best.blocks)
            /\ SumDifficulty(c.blocks) > SumDifficulty(best.blocks)
    ELSE Len(c.blocks) > Len(best.blocks)

\* C36: apply_fork_choice returns None for an empty list of chains and
\* otherwise one of the given chains above which none of the given chains
\* ranks: by the votes recorded for the tip, then the later tip timestamp,
\* under LMD-GHOST; by the number of blocks, then the greater cumulative
\* difficulty, under GHOST; by the number of blocks under LongestChain.
C36_ForkChoiceIsMaximal ==
    fork.call = "apply_fork_choice" =>
       IF fork.chains = <<>>
       THEN fork.selected = NoChain
       ELSE /\ \E i \in DOMAIN fork.chains : fork.chains[i] = fork.selected
            /\ \A i \in DOMAIN fork.chains :
                  ~RanksAbove(fork.algorithm, fork.chains[i], fork.selected)

\* GHOST among three chains has passed over the first of two chains of the
\* greatest length for the second, heavier one
C36_Witness ==
    /\ fork.call = "apply_fork_choice"
    /\ fork.algorithm = "GHOST"
    /\ Len(fork.chains) = 3
    /\ fork.chains[1].name = "c"
    /\ fork.selected.name = "d"
    /\ TipVoteCount(fork.selected) = 1

(***************************************************************************)
(* MerkleTree: the tree after add_transaction and remove_transaction       *)
(***************************************************************************)

\* C37: after add_transaction or remove_transaction the root and the levels
\* of the tree are those of a MerkleTree built over the transaction list as
\* it is now, and get_proof returns for every transaction of the list what it
\* returns on that tree.
C37_EditedTreeIsFreshTree ==
    merkle.call \in {"add_transaction", "remove_transaction"} =>
       /\ merkle.root = MerkleTree(merkle.transactions).root
       /\ merkle.levels = MerkleTree(merkle.transactions).levels
       /\ \A transaction \in LeafTxs :
             InSeq(merkle.transactions, transaction) =>
                get_proof(merkle, transaction)
                   = get_proof(MerkleTree(merkle.transactions), transaction)

\* C38 as claimed: after every StateMachine operation (apply_transaction whether
\* it succeeds or fails, apply_block, create_snapshot, restore_snapshot,
\* rollback_to_block) the stored state_root equals the root recomputed from the
\* current state.
C38_StoredRootIsCurrentRoot ==
    smResult # "init" => sm.state_root = calculate_state_root(sm)

\* the votes stored for a height that were cast by validators of the set
MemberVotes(bn) ==
    Cardinality({ vid \in block_votes[bn] :
                    \E i \in DOMAIN validators : validators[i] = vid })

\* C39 as claimed: only votes cast by members of the current validator set
\* count toward the thresholds: a checkpoint becomes justified only when the
\* votes of validators stored for its height reach the justification threshold,
\* and no checkpoint becomes justified or finalized while the validator set is
\* empty or without a validator's vote for its height.
C39_OnlyValidatorVotesCount ==
    [][initialized =>
        \A bn \in CheckpointHeights :
           /\ (~JustifiedAt(bn) /\ JustifiedAt(bn)') =>
                 /\ validators # <<>>
                 /\ MemberVotes(bn)' >= required_justification_votes(validators)
           /\ (~FinalizedAt(bn) /\ FinalizedAt(bn)') =>
                 /\ validators # <<>>
                 /\ MemberVotes(bn)' >= 1]_vars

(***************************************************************************)
(* MemPool                                                                 *)
(***************************************************************************)

\* ---- bounds ----
MaxPoolSize == 2         \* max_size the MemPool is constructed with

\* seconds after which _validate_transaction calls a transaction stale
StaleAge == 3600

\* Transaction(sender, receiver, amount, ...) between two different addresses:
\* what validate_transaction and _validate_transaction read, and the id
PoolTx(transaction_id, amount, fee, signature, age) ==
    [transaction_id |-> transaction_id, amount |-> amount, fee |-> fee,
     signature |-> signature, age |-> age]

\* three signed transactions, an unsigned one, one of amount 0, a stale one
PoolTxs ==
    { PoolTx(1, 10, 0, TRUE, 0), PoolTx(2, 20, 0, TRUE, 0), PoolTx(3, 5, 1, TRUE, 0),
      PoolTx(4, 10, 0, FALSE, 0), PoolTx(5, 0, 0, TRUE, 0),
      PoolTx(6, 10, 0, TRUE, StaleAge + 1) }

PoolTxIds == { tx.transaction_id : tx \in PoolTxs }

validate_transaction(tx) == tx.amount > 0 /\ tx.fee >= 0 /\ tx.signature

mempool_validate_transaction(tx) ==
    validate_transaction(tx) /\ tx.fee >= 0 /\ tx.age <= StaleAge

\* MemPool(max_size); transaction_map holds the keys of self._transaction_map
MemPool(max_size) ==
    [transactions |-> <<>>, transaction_map |-> {}, max_size |-> max_size,
     call |-> "none", arg |-> 0, result |-> "none"]

mempool_add_transaction(m, tx) ==
    IF tx.transaction_id \in m.transaction_map
    THEN [m EXCEPT !.call = "add_transaction", !.arg = tx.transaction_id, !.result = "False"]
    ELSE IF Len(m.transactions) >= m.max_size
    THEN [m EXCEPT !.call = "add_transaction", !.arg = tx.transaction_id, !.result = "False"]
    ELSE IF ~mempool_validate_transaction(tx)
    THEN [m EXCEPT !.call = "add_transaction", !.arg = tx.transaction_id, !.result = "False"]
    ELSE [m EXCEPT !.transactions = Append(@, tx),
                   !.transaction_map = @ \cup {tx.transaction_id},
                   !.call = "add_transaction", !.arg = tx.transaction_id,
                   !.result = "True"]

mempool_remove_transaction(m, tx) ==
    IF tx.transaction_id \in m.transaction_map
    THEN [m EXCEPT !.transaction_map = @ \ {tx.transaction_id},
                   !.transactions =
                       SelectSeq(@, LAMBDA t : t.transaction_id # tx.transaction_id),
                   !.call = "remove_transaction", !.arg = tx.transaction_id,
                   !.result = "True"]
    ELSE [m EXCEPT !.call = "remove_transaction", !.arg = tx.transaction_id,
                   !.result = "False"]

\* clear(): self.transactions.clear()
mempool_clear(m) ==
    [m EXCEPT !.transactions = <<>>, !.call = "clear", !.arg = 0, !.result = "None"]

MemPoolConstructed ==
    /\ mempool = MemPool(MaxPoolSize)
    /\ FinFields /\ ChainIdle /\ SMIdle /\ PipeIdle /\ ConsIdle
    /\ twin = <<>>
    /\ merkle = <<>>
    /\ fork = <<>>
    /\ pos = <<>>
    /\ tasks = <<>>

notPoolVars == <<finVars, chainVars, smVars, pipeVars, consVars, twin, merkle, fork, pos, tasks>>

MemPoolAddTransaction(tx) ==
    /\ mempool' = mempool_add_transaction(mempool, tx)
    /\ UNCHANGED notPoolVars

MemPoolRemoveTransaction(tx) ==
    /\ mempool' = mempool_remove_transaction(mempool, tx)
    /\ UNCHANGED notPoolVars

MemPoolClear ==
    /\ mempool' = mempool_clear(mempool)
    /\ UNCHANGED notPoolVars

NextMemPool ==
    \/ \E tx \in PoolTxs : MemPoolAddTransaction(tx)
    \/ \E tx \in PoolTxs : MemPoolRemoveTransaction(tx)
    \/ MemPoolClear

SpecMemPool == MemPoolConstructed /\ [][NextMemPool]_vars

\* the ids of the transactions in the list
ListedIds(m) == { m.transactions[i].transaction_id : i \in DOMAIN m.transactions }

\* C40 as claimed: after every add_transaction, remove_transaction and clear
\* call the transaction list and the id index hold the same transactions, no id
\* is in the list twice and the list is no longer than max_size; add_transaction
\* returns false and changes nothing for a duplicate, a full pool or an invalid
\* transaction; a valid transaction that was removed or cleared is added by the
\* next add_transaction for which the pool has room.
C40_ListAndIndexAgree ==
    [][ /\ ListedIds(mempool') = mempool'.transaction_map
        /\ Cardinality(ListedIds(mempool')) = Len(mempool'.transactions)
        /\ Len(mempool'.transactions) <= mempool'.max_size
        /\ \A tx \in PoolTxs :
              MemPoolAddTransaction(tx) =>
                 IF \/ tx.transaction_id \in ListedIds(mempool)
                    \/ Len(mempool.transactions) >= mempool.max_size
                    \/ ~mempool_validate_transaction(tx)
                 THEN /\ mempool'.result = "False"
                      /\ mempool'.transactions = mempool.transactions
                      /\ mempool'.transaction_map = mempool.transaction_map
                 ELSE /\ mempool'.result = "True"
                      /\ tx.transaction_id \in ListedIds(mempool') ]_vars

====
